---- MODULE Spec2Model ----
(***************************************************************************)
(* Compact time codec (go-compact-time): the value object, the encoder     *)
(* and the decoder, modelled as operators over machine words and byte      *)
(* sequences, driven by a small state machine that constructs a value,     *)
(* encodes it to a stream and decodes it from a reader.                    *)
(*                                                                         *)
(* Machine words are bit vectors: a function 0..63 -> {0, 1}, bit 0 the    *)
(* least significant.  Narrower words (uint32, uint16) are the same        *)
(* vectors with the upper bits cleared by Trunc.  Strings are sequences of *)
(* byte values, as they travel on the wire.                                *)
(***************************************************************************)
EXTENDS Integers, Sequences, FiniteSets, TLC

\* ------------------------------------------------------------------------
\* Constants of the codec
\* ------------------------------------------------------------------------

MaxEncodeLength == 50

yearBias == 2000
bitsPerYearGroup == 7

sizeMagnitude == 2
sizeSubsecond == 10
sizeSecond == 6
sizeMinute == 6
sizeHour == 5
sizeDay == 5
sizeMonth == 4
sizeLatitude == 15
sizeLongitude == 16
yearLowBitCountDate == 7

byteCountDate == 2
byteCountLatLong == 4
byteCountUTCOffset == 3

shiftLength == 1
shiftLatitude == 1
shiftLongitude == 16

RequiredBufferSize == 127

\* Tables indexed by magnitude 0..3 (and by time type 0..2).
yearLowBitCountsTimestamp == [m \in 0..3 |-> CASE m = 0 -> 3 [] m = 1 -> 1 [] m = 2 -> 7 [] m = 3 -> 5]
subsecMultipliers == [m \in 0..3 |-> CASE m = 0 -> 1 [] m = 1 -> 1000000 [] m = 2 -> 1000 [] m = 3 -> 1]
baseByteCountsTime == [m \in 0..3 |-> CASE m = 0 -> 3 [] m = 1 -> 4 [] m = 2 -> 5 [] m = 3 -> 7]
baseByteCountsTimestamp == [m \in 0..3 |-> CASE m = 0 -> 4 [] m = 1 -> 5 [] m = 2 -> 7 [] m = 3 -> 8]
byteCountsZeroValue == [t \in 0..2 |-> CASE t = 0 -> 3 [] t = 1 -> 3 [] t = 2 -> 5]

\* Time types and timezone types (iota enumerations).
TimeTypeDate == 0
TimeTypeTime == 1
TimeTypeTimestamp == 2

TimezoneTypeUnset == 0
TimezoneTypeUTC == 1
TimezoneTypeLocal == 2
TimezoneTypeAreaLocation == 3
TimezoneTypeLatitudeLongitude == 4
TimezoneTypeUTCOffset == 5

\* Field ranges accepted by Validate.
monthMin == 1
monthMax == 12
dayMin == 1
hourMin == 0
hourMax == 23
minuteMin == 0
minuteMax == 59
secondMin == 0
secondMax == 60
nanosecondMin == 0
nanosecondMax == 999999999
latitudeMin == -9000
latitudeMax == 9000
longitudeMin == -18000
longitudeMax == 18000
minutesFromUTCMin == -1439
minutesFromUTCMax == 1439

\* dayMax with 28 days for February.
dayMax_February28 ==
    [m \in 0..12 |-> CASE m = 0 -> 0 [] m = 2 -> 28 [] m \in {4, 6, 9, 11} -> 30 [] OTHER -> 31]

dayMax == [m \in 0..12 |-> CASE m = 0 -> 0
                             [] m \in {1, 3, 5, 7, 8, 10, 12} -> 31
                             [] m = 2 -> 29
                             [] OTHER -> 30]

\* ------------------------------------------------------------------------
\* Machine words
\* ------------------------------------------------------------------------

WordBits == 0..63

Pow2(n) == 2 ^ n

Min(a, b) == IF a < b THEN a ELSE b

\* uint64(n) for 0 <= n < 2^31.
U64(n) == [i \in WordBits |-> IF i < 31 THEN (n \div Pow2(i)) % 2 ELSE 0]

\* uint64(n) for a signed n, -2^31 < n < 2^31: two's complement, sign extended.
I64(n) == IF n >= 0 THEN U64(n)
          ELSE [i \in WordBits |-> IF i < 31 THEN 1 - ((((-n) - 1) \div Pow2(i)) % 2) ELSE 1]

\* ^uint64(0)
AllOnes == [i \in WordBits |-> 1]

Zero64 == [i \in WordBits |-> 0]

\* a << k, a >> k (logical), a | b, a & b, a ^ b on 64-bit words.
Shl(a, k) == [i \in WordBits |-> IF i >= k THEN a[i - k] ELSE 0]
Shr(a, k) == [i \in WordBits |-> IF i + k <= 63 THEN a[i + k] ELSE 0]
Or(a, b) == [i \in WordBits |-> IF a[i] = 1 \/ b[i] = 1 THEN 1 ELSE 0]
And(a, b) == [i \in WordBits |-> IF a[i] = 1 /\ b[i] = 1 THEN 1 ELSE 0]
Xor(a, b) == [i \in WordBits |-> IF a[i] # b[i] THEN 1 ELSE 0]

\* Conversion to a w-bit unsigned type: the bits from w upward are dropped.
Trunc(a, w) == [i \in WordBits |-> IF i < w THEN a[i] ELSE 0]

\* Sign extension of a w-bit two's complement word to 64 bits.
SignExtend(a, w) == [i \in WordBits |-> IF i < w THEN a[i] ELSE a[w - 1]]

\* Arithmetic right shift of a w-bit signed word, result as a 64-bit signed word.
Sar(a, w, k) == [i \in WordBits |-> IF i + k < w THEN a[i + k] ELSE a[w - 1]]

RECURSIVE SumBits(_, _, _)
SumBits(a, from, n) == IF n = 0 THEN 0 ELSE a[from] + 2 * SumBits(a, from + 1, n - 1)

\* The unsigned value of bits from .. from+n-1 of a word (n <= 30).
Field(a, from, n) == SumBits(a, from, n)

\* int(a) of a signed 64-bit word whose value lies in -2^31 .. 2^31 - 1.
ToInt(a) == IF a[63] = 0 THEN SumBits(a, 0, 31)
            ELSE -(SumBits([i \in WordBits |-> 1 - a[i]], 0, 31)) - 1

IsZero(a) == \A i \in WordBits : a[i] = 0

\* bitMask(bitCount) == uint64(1)<<uint(bitCount) - 1
bitMask(bitCount) == [i \in WordBits |-> IF i < bitCount THEN 1 ELSE 0]

\* Byte j (0-based) of a word.
ByteOf(a, j) == SumBits(a, 8 * j, 8)

\* The low byteCount bytes of a word, least significant first.
encodeLE(value, byteCount) == [i \in 1..byteCount |-> ByteOf(value, i - 1)]

encode16LE(value) == <<ByteOf(value, 0), ByteOf(value, 1)>>

encode32LE(value) == <<ByteOf(value, 0), ByteOf(value, 1), ByteOf(value, 2), ByteOf(value, 3)>>

decodeLE(src, byteCount) ==
    [i \in WordBits |-> IF i \div 8 < byteCount
                        THEN (src[(i \div 8) + 1] \div Pow2(i % 8)) % 2
                        ELSE 0]

decode16LE(src) == decodeLE(src, 2)

decode32LE(src) == decodeLE(src, 4)


\* ------------------------------------------------------------------------
\* Area/location names
\* ------------------------------------------------------------------------

Slash == 47

shortAreaToAreaTable ==
    { <<<<70>>, <<65, 102, 114, 105, 99, 97>>>>,                        \* "F": "Africa"
      <<<<77>>, <<65, 109, 101, 114, 105, 99, 97>>>>,                   \* "M": "America"
      <<<<78>>, <<65, 110, 116, 97, 114, 99, 116, 105, 99, 97>>>>,      \* "N": "Antarctica"
      <<<<82>>, <<65, 114, 99, 116, 105, 99>>>>,                        \* "R": "Arctic"
      <<<<83>>, <<65, 115, 105, 97>>>>,                                 \* "S": "Asia"
      <<<<84>>, <<65, 116, 108, 97, 110, 116, 105, 99>>>>,              \* "T": "Atlantic"
      <<<<85>>, <<65, 117, 115, 116, 114, 97, 108, 105, 97>>>>,         \* "U": "Australia"
      <<<<67>>, <<69, 116, 99>>>>,                                      \* "C": "Etc"
      <<<<69>>, <<69, 117, 114, 111, 112, 101>>>>,                      \* "E": "Europe"
      <<<<73>>, <<73, 110, 100, 105, 97, 110>>>>,                       \* "I": "Indian"
      <<<<80>>, <<80, 97, 99, 105, 102, 105, 99>>>>,                    \* "P": "Pacific"
      <<<<76>>, <<76, 111, 99, 97, 108>>>>,                             \* "L": "Local"
      <<<<90>>, <<90, 101, 114, 111>>>> }                               \* "Z": "Zero"

\* shortAreaToArea[area]; the empty string when the key is absent.
shortAreaToArea(area) ==
    IF \E e \in shortAreaToAreaTable : e[1] = area
    THEN (CHOOSE e \in shortAreaToAreaTable : e[1] = area)[2]
    ELSE <<>>

areaToShortAreaTable ==
    { <<<<65, 102, 114, 105, 99, 97>>, <<70>>>>,                        \* "Africa": "F"
      <<<<65, 109, 101, 114, 105, 99, 97>>, <<77>>>>,                   \* "America": "M"
      <<<<65, 110, 116, 97, 114, 99, 116, 105, 99, 97>>, <<78>>>>,      \* "Antarctica": "N"
      <<<<65, 114, 99, 116, 105, 99>>, <<82>>>>,                        \* "Arctic": "R"
      <<<<65, 115, 105, 97>>, <<83>>>>,                                 \* "Asia": "S"
      <<<<65, 116, 108, 97, 110, 116, 105, 99>>, <<84>>>>,              \* "Atlantic": "T"
      <<<<65, 117, 115, 116, 114, 97, 108, 105, 97>>, <<85>>>>,         \* "Australia": "U"
      <<<<69, 116, 99>>, <<67>>>>,                                      \* "Etc": "C"
      <<<<69, 117, 114, 111, 112, 101>>, <<69>>>>,                      \* "Europe": "E"
      <<<<73, 110, 100, 105, 97, 110>>, <<73>>>>,                       \* "Indian": "I"
      <<<<80, 97, 99, 105, 102, 105, 99>>, <<80>>>>,                    \* "Pacific": "P"
      <<<<76, 111, 99, 97, 108>>, <<76>>>>,                             \* "Local": "L"
      <<<<90, 101, 114, 111>>, <<90>>>> }                               \* "Zero": "Z"

\* areaToShortArea[area]; the empty string when the key is absent.
areaToShortArea(area) ==
    IF \E e \in areaToShortAreaTable : e[1] = area
    THEN (CHOOSE e \in areaToShortAreaTable : e[1] = area)[2]
    ELSE <<>>

internalTZAreaLocation == 0
internalTZUTC == 1
internalTZUTCPreserve == 2
internalTZLocal == 3

areaLocationToTimezoneTypeTable ==
    { <<<<>>, 1>>,                                                      \* ""
      <<<<69, 116, 99, 47, 85, 84, 67>>, 1>>,                           \* "Etc/UTC"
      <<<<90>>, 1>>,                                                    \* "Z"
      <<<<90, 101, 114, 111>>, 1>>,                                     \* "Zero"
      <<<<69, 116, 99, 47, 71, 77, 84>>, 2>>,                           \* "Etc/GMT"
      <<<<69, 116, 99, 47, 71, 77, 84, 43, 48>>, 2>>,                   \* "Etc/GMT+0"
      <<<<69, 116, 99, 47, 71, 77, 84, 45, 48>>, 2>>,                   \* "Etc/GMT-0"
      <<<<69, 116, 99, 47, 71, 77, 84, 48>>, 2>>,                       \* "Etc/GMT0"
      <<<<69, 116, 99, 47, 71, 114, 101, 101, 110, 119, 105, 99, 104>>, 2>>,   \* "Etc/Greenwich"
      <<<<69, 116, 99, 47, 85, 67, 84>>, 2>>,                           \* "Etc/UCT"
      <<<<69, 116, 99, 47, 85, 110, 105, 118, 101, 114, 115, 97, 108>>, 2>>,   \* "Etc/Universal"
      <<<<69, 116, 99, 47, 90, 117, 108, 117>>, 2>>,                    \* "Etc/Zulu"
      <<<<70, 97, 99, 116, 111, 114, 121>>, 2>>,                        \* "Factory"
      <<<<71, 77, 84>>, 2>>,                                            \* "GMT"
      <<<<71, 77, 84, 43, 48>>, 2>>,                                    \* "GMT+0"
      <<<<71, 77, 84, 45, 48>>, 2>>,                                    \* "GMT-0"
      <<<<71, 77, 84, 48>>, 2>>,                                        \* "GMT0"
      <<<<71, 114, 101, 101, 110, 119, 105, 99, 104>>, 2>>,             \* "Greenwich"
      <<<<85, 67, 84>>, 2>>,                                            \* "UCT"
      <<<<85, 110, 105, 118, 101, 114, 115, 97, 108>>, 2>>,             \* "Universal"
      <<<<85, 84, 67>>, 2>>,                                            \* "UTC"
      <<<<90, 117, 108, 117>>, 2>>,                                     \* "Zulu"
      <<<<76>>, 3>>,                                                    \* "L"
      <<<<76, 111, 99, 97, 108>>, 3>>}                                  \* "Local"

\* areaLocationToTimezoneType[areaLocation]; internalTZAreaLocation (the zero
\* value of the map's element type) when the key is absent.
areaLocationToTimezoneType(areaLocation) ==
    IF \E e \in areaLocationToTimezoneTypeTable : e[1] = areaLocation
    THEN (CHOOSE e \in areaLocationToTimezoneTypeTable : e[1] = areaLocation)[2]
    ELSE internalTZAreaLocation

\* Position of the first "/" in a string, 0 when there is none.
IndexSlash(s) ==
    IF \E i \in 1..Len(s) : s[i] = Slash
    THEN CHOOSE i \in 1..Len(s) : s[i] = Slash /\ \A j \in 1..(i - 1) : s[j] # Slash
    ELSE 0

\* splitAreaLocation that does not expand the letter of a short name.
splitAreaLocation_LetterKept(areaLocation) ==
    LET p == IndexSlash(areaLocation) IN
    IF p = 0 THEN <<areaLocation, areaLocation>>
    ELSE LET area == SubSeq(areaLocation, 1, p - 1)
             location == SubSeq(areaLocation, p + 1, Len(areaLocation))
         IN IF Len(area) # 1 /\ areaToShortArea(area) # <<>>
            THEN <<areaToShortArea(area) \o <<Slash>> \o location, areaLocation>>
            ELSE <<areaLocation, areaLocation>>

\* splitAreaLocation: <<shortAreaLocation, longAreaLocation>>.
splitAreaLocation(areaLocation) ==
    LET p == IndexSlash(areaLocation) IN
    IF p = 0 THEN <<areaLocation, areaLocation>>
    ELSE LET area == SubSeq(areaLocation, 1, p - 1)
             location == SubSeq(areaLocation, p + 1, Len(areaLocation))
         IN IF Len(area) = 1
            THEN IF shortAreaToArea(area) # <<>>
                 THEN <<areaLocation, shortAreaToArea(area) \o <<Slash>> \o location>>
                 ELSE <<areaLocation, areaLocation>>
            ELSE IF areaToShortArea(area) # <<>>
                 THEN <<areaToShortArea(area) \o <<Slash>> \o location, areaLocation>>
                 ELSE <<areaLocation, areaLocation>>

\* ------------------------------------------------------------------------
\* The value object: Timezone and Time
\* ------------------------------------------------------------------------

\* Narrowing conversions of the constructors.
Uint8(n) == n % 256
Int16(n) == LET u == n % 65536 IN IF u >= 32768 THEN u - 65536 ELSE u

\* The zero Timezone struct.
TimezoneUnset ==
    [ShortAreaLocation |-> <<>>, LongAreaLocation |-> <<>>,
     LatitudeHundredths |-> 0, LongitudeHundredths |-> 0,
     MinutesOffsetFromUTC |-> 0, Type |-> TimezoneTypeUnset]

timezoneUTC ==
    [TimezoneUnset EXCEPT !.Type = TimezoneTypeUTC,
                          !.ShortAreaLocation = <<90>>,
                          !.LongAreaLocation = <<69, 116, 99, 47, 85, 84, 67>>]

timezoneLocal ==
    [TimezoneUnset EXCEPT !.Type = TimezoneTypeLocal,
                          !.ShortAreaLocation = <<76>>,
                          !.LongAreaLocation = <<76, 111, 99, 97, 108>>]

TZAtUTC == timezoneUTC

TZLocal == timezoneLocal

InitWithAreaLocation(this, areaLocation) ==
    CASE areaLocationToTimezoneType(areaLocation) = internalTZUTC -> timezoneUTC
      [] areaLocationToTimezoneType(areaLocation) = internalTZLocal -> timezoneLocal
      [] areaLocationToTimezoneType(areaLocation) = internalTZUTCPreserve ->
            [this EXCEPT !.Type = TimezoneTypeUTC,
                         !.ShortAreaLocation = <<90>>,
                         !.LongAreaLocation = areaLocation]
      [] OTHER ->
            [this EXCEPT !.Type = TimezoneTypeAreaLocation,
                         !.ShortAreaLocation = splitAreaLocation(areaLocation)[1],
                         !.LongAreaLocation = splitAreaLocation(areaLocation)[2]]

InitWithLatLong(this, latitudeHundredths, longitudeHundredths) ==
    [this EXCEPT !.LatitudeHundredths = Int16(latitudeHundredths),
                 !.LongitudeHundredths = Int16(longitudeHundredths),
                 !.Type = TimezoneTypeLatitudeLongitude]

\* InitWithMinutesOffsetFromUTC that keeps an offset of 0 as an offset.
InitWithMinutesOffsetFromUTC_KeepZero(this, minutesOffsetFromUTC) ==
    [this EXCEPT !.MinutesOffsetFromUTC = Int16(minutesOffsetFromUTC),
                 !.Type = TimezoneTypeUTCOffset]

InitWithMinutesOffsetFromUTC(this, minutesOffsetFromUTC) ==
    LET minutes == Int16(minutesOffsetFromUTC) IN
    IF minutes = 0 THEN timezoneUTC
    ELSE [this EXCEPT !.MinutesOffsetFromUTC = minutes,
                      !.Type = TimezoneTypeUTCOffset]

TZAtAreaLocation(areaLocation) == InitWithAreaLocation(TimezoneUnset, areaLocation)

TZAtLatLong(latitudeHundredths, longitudeHundredths) ==
    InitWithLatLong(TimezoneUnset, latitudeHundredths, longitudeHundredths)

TZWithMiutesOffsetFromUTC(minutesOffsetFromUTC) ==
    InitWithMinutesOffsetFromUTC(TimezoneUnset, minutesOffsetFromUTC)

\* (*Timezone).Validate: TRUE when it returns nil.
TimezoneValidate(this) ==
    CASE this.Type = TimezoneTypeAreaLocation ->
            /\ Len(this.LongAreaLocation) # 0
            /\ ~(Len(this.LongAreaLocation) > 127)
      [] this.Type = TimezoneTypeLatitudeLongitude ->
            /\ ~(this.LongitudeHundredths < longitudeMin \/ this.LongitudeHundredths > longitudeMax)
            /\ ~(this.LatitudeHundredths < latitudeMin \/ this.LatitudeHundredths > latitudeMax)
      [] this.Type = TimezoneTypeUTCOffset ->
            ~(this.MinutesOffsetFromUTC < minutesFromUTCMin \/ this.MinutesOffsetFromUTC > minutesFromUTCMax)
      [] OTHER -> TRUE

\* The zero Time struct.
TimeUnset ==
    [Timezone |-> TimezoneUnset, Year |-> 0, Nanosecond |-> 0, Second |-> 0,
     Minute |-> 0, Hour |-> 0, Day |-> 0, Month |-> 0, Type |-> TimeTypeDate]

ZeroDate == [TimeUnset EXCEPT !.Type = TimeTypeDate]

ZeroTime == [TimeUnset EXCEPT !.Type = TimeTypeTime]

ZeroTimestamp == [TimeUnset EXCEPT !.Type = TimeTypeTimestamp]

\* InitDate that leaves the zone of the receiver alone.
InitDate_ZoneUntouched(this, year, month, day) ==
    [this EXCEPT !.Type = TimeTypeDate,
                 !.Year = year,
                 !.Month = Uint8(month),
                 !.Day = Uint8(day)]

InitDate(this, year, month, day) ==
    [this EXCEPT !.Type = TimeTypeDate,
                 !.Year = year,
                 !.Month = Uint8(month),
                 !.Day = Uint8(day),
                 !.Timezone.Type = TimezoneTypeLocal]

InitTime(this, hour, minute, second, nanosecond, timezone) ==
    [this EXCEPT !.Type = TimeTypeTime,
                 !.Hour = Uint8(hour),
                 !.Minute = Uint8(minute),
                 !.Second = Uint8(second),
                 !.Nanosecond = nanosecond,
                 !.Timezone = timezone]

InitTimestamp(this, year, month, day, hour, minute, second, nanosecond, tz) ==
    [this EXCEPT !.Year = year,
                 !.Month = Uint8(month),
                 !.Day = Uint8(day),
                 !.Hour = Uint8(hour),
                 !.Minute = Uint8(minute),
                 !.Second = Uint8(second),
                 !.Nanosecond = nanosecond,
                 !.Timezone = tz,
                 !.Type = TimeTypeTimestamp]

NewDate(year, month, day) == InitDate(TimeUnset, year, month, day)

NewTime(hour, minute, second, nanosecond, timezone) ==
    InitTime(TimeUnset, hour, minute, second, nanosecond, timezone)

NewTimestamp(year, month, day, hour, minute, second, nanosecond, timezone) ==
    InitTimestamp(TimeUnset, year, month, day, hour, minute, second, nanosecond, timezone)

IsZeroValue(this) == this.Timezone.Type = TimezoneTypeUnset

\* (*Time).IsEquivalentTo
IsEquivalentTo(this, that) ==
    IF this.Timezone.Type = TimezoneTypeUTC /\ that.Timezone.Type = TimezoneTypeUTC
    THEN /\ this.Year = that.Year
         /\ this.Month = that.Month
         /\ this.Day = that.Day
         /\ this.Hour = that.Hour
         /\ this.Minute = that.Minute
         /\ this.Second = that.Second
         /\ this.Nanosecond = that.Nanosecond
    ELSE this = that

\* (*Time).Validate: TRUE when it returns nil.
Validate(this) ==
    /\ (this.Type = TimeTypeDate \/ this.Type = TimeTypeTimestamp) =>
          /\ this.Year # 0
          /\ ~(this.Month < monthMin \/ this.Month > monthMax)
          /\ ~(this.Day < dayMin \/ this.Day > dayMax[this.Month])
    /\ (this.Type = TimeTypeTime \/ this.Type = TimeTypeTimestamp) =>
          /\ ~(this.Hour < hourMin \/ this.Hour > hourMax)
          /\ ~(this.Minute < minuteMin \/ this.Minute > minuteMax)
          /\ ~(this.Second < secondMin \/ this.Second > secondMax)
          /\ ~(this.Nanosecond < nanosecondMin \/ this.Nanosecond > nanosecondMax)
          /\ TimezoneValidate(this.Timezone)

\* ------------------------------------------------------------------------
\* Encoder
\* ------------------------------------------------------------------------

\* int32(n) as a word (upper 32 bits cleared), for -2^31 < n < 2^31.
Int32Word(n) == Trunc(I64(n), 32)

\* encodeZigzag32 with the shift by 31 of an unsigned value.
encodeZigzag32_UnsignedShift(value) ==
    Trunc(Xor(Shr(value, 31), Trunc(Shl(value, 1), 32)), 32)

\* encodeZigzag32: uint32((value >> 31) ^ (value << 1)) on a 32-bit word.
encodeZigzag32(value) ==
    Trunc(Xor(Sar(value, 32, 31), Trunc(Shl(value, 1), 32)), 32)

\* getSubsecondMagnitude that never picks milliseconds or microseconds.
getSubsecondMagnitude_NanosecondsOnly(nanosecond) ==
    IF nanosecond = 0 THEN 0 ELSE 3

getSubsecondMagnitude(nanosecond) ==
    IF nanosecond = 0 THEN 0
    ELSE IF (nanosecond % 1000) # 0 THEN 3
    ELSE IF (nanosecond % 1000000) # 0 THEN 2
    ELSE 1

\* encodeYear: the zig-zag of int32(year) - yearBias, a 32-bit word.
encodeYear(year) == encodeZigzag32(Int32Word(year - yearBias))

RECURSIVE CountYearGroups(_)
CountYearGroups(year) ==
    IF IsZero(year) THEN 0 ELSE 1 + CountYearGroups(Shr(year, bitsPerYearGroup))

\* getYearGroupCount without its lower limit of one group.
getYearGroupCount_NoMinimum(encodedYear, uncountedBits) ==
    CountYearGroups(Trunc(Shr(encodedYear, uncountedBits), 32))

\* getYearGroupCount that counts the groups of the whole encoded year.
getYearGroupCount_LowBitsCounted(encodedYear, uncountedBits) ==
    IF IsZero(Trunc(encodedYear, 32)) THEN 1 ELSE CountYearGroups(Trunc(encodedYear, 32))

getYearGroupCount(encodedYear, uncountedBits) ==
    LET year == Trunc(Shr(encodedYear, uncountedBits), 32) IN
    IF IsZero(year) THEN 1 ELSE CountYearGroups(year)

\* uleb128.EncodeUint64ToBytes: the unsigned LEB128 bytes of a 64-bit word,
\* seven bits per byte from the least significant group, the top bit of a
\* byte set when another byte follows.
RECURSIVE uleb128EncodeUint64ToBytes(_)
uleb128EncodeUint64ToBytes(value) ==
    IF IsZero(Shr(value, 7)) THEN <<Field(value, 0, 7)>>
    ELSE <<Field(value, 0, 7) + 128>> \o uleb128EncodeUint64ToBytes(Shr(value, 7))

encodedSizeDate(year) ==
    byteCountDate + getYearGroupCount(encodeYear(year), yearLowBitCountDate)

encodedSizeTimezone(tzType, shortAreaLocation) ==
    CASE tzType = TimezoneTypeUTC -> 0
      [] tzType \in {TimezoneTypeAreaLocation, TimezoneTypeLocal} -> 1 + Len(shortAreaLocation)
      [] tzType = TimezoneTypeLatitudeLongitude -> byteCountLatLong
      [] tzType = TimezoneTypeUTCOffset -> byteCountUTCOffset

encodedSizeTime(nanosecond, tzType, shortAreaLocation) ==
    LET magnitude == getSubsecondMagnitude(nanosecond)
        baseByteCount == baseByteCountsTime[magnitude]
    IN baseByteCount + encodedSizeTimezone(tzType, shortAreaLocation)

encodedSizeTimestamp(year, nanosecond, tzType, shortAreaLocation) ==
    LET magnitude == getSubsecondMagnitude(nanosecond)
        baseByteCount == baseByteCountsTimestamp[magnitude]
        encodedYear == encodeYear(year)
        yearGroupCount == getYearGroupCount(encodedYear, yearLowBitCountsTimestamp[magnitude])
    IN baseByteCount + yearGroupCount + encodedSizeTimezone(tzType, shortAreaLocation)

\* (*Time).EncodedSize
EncodedSize(this) ==
    IF IsZeroValue(this) THEN byteCountsZeroValue[this.Type]
    ELSE CASE this.Type = TimeTypeDate -> encodedSizeDate(this.Year)
           [] this.Type = TimeTypeTime ->
                 encodedSizeTime(this.Nanosecond, this.Timezone.Type, this.Timezone.ShortAreaLocation)
           [] this.Type = TimeTypeTimestamp ->
                 encodedSizeTimestamp(this.Year, this.Nanosecond, this.Timezone.Type,
                                      this.Timezone.ShortAreaLocation)

\* (*Time).EncodedSize does not return: byteCountsZeroValue is indexed past
\* its end, or the switch on the kind or on the zone type reaches its default
\* and panics.
EncodedSizePanics(this) ==
    IF IsZeroValue(this) THEN this.Type \notin DOMAIN byteCountsZeroValue
    ELSE CASE this.Type = TimeTypeDate -> FALSE
           [] this.Type \in {TimeTypeTime, TimeTypeTimestamp} ->
                 this.Timezone.Type \notin
                     {TimezoneTypeUTC, TimezoneTypeAreaLocation, TimezoneTypeLocal,
                      TimezoneTypeLatitudeLongitude, TimezoneTypeUTCOffset}
           [] OTHER -> TRUE

\* encodeZeroBytes that stops one byte early.
encodeZeroBytes_OneShort(count) == [i \in 1..(count - 1) |-> 0]

encodeZeroBytes(count) == [i \in 1..count |-> 0]

encodeZeroDate == encodeZeroBytes(byteCountsZeroValue[TimeTypeDate])

encodeZeroTime == encodeZeroBytes(byteCountsZeroValue[TimeTypeTime])

encodeZeroTimestamp == encodeZeroBytes(byteCountsZeroValue[TimeTypeTimestamp])

\* encodeDate with the month and the day in each other's place.
encodeDate_DayBeforeMonth(year, month, day) ==
    LET encodedYear == encodeYear(year)
        yearGroupedMask == Trunc(bitMask(yearLowBitCountDate), 32)
        acc0 == Trunc(And(encodedYear, yearGroupedMask), 16)
        acc1 == Trunc(Or(Shl(acc0, sizeDay), Trunc(I64(day), 16)), 16)
        acc2 == Trunc(Or(Shl(acc1, sizeMonth), Trunc(I64(month), 16)), 16)
    IN encode16LE(acc2)
         \o uleb128EncodeUint64ToBytes(Trunc(Shr(encodedYear, yearLowBitCountDate), 32))

\* encodeDate: the bytes written to the buffer.
encodeDate(year, month, day) ==
    LET encodedYear == encodeYear(year)
        yearGroupedMask == Trunc(bitMask(yearLowBitCountDate), 32)
        acc0 == Trunc(And(encodedYear, yearGroupedMask), 16)
        acc1 == Trunc(Or(Shl(acc0, sizeMonth), Trunc(I64(month), 16)), 16)
        acc2 == Trunc(Or(Shl(acc1, sizeDay), Trunc(I64(day), 16)), 16)
    IN encode16LE(acc2)
         \o uleb128EncodeUint64ToBytes(Trunc(Shr(encodedYear, yearLowBitCountDate), 32))

\* encodeTime with an accumulator that starts at zero: the bits above the
\* hour stay clear.
encodeTime_ReservedZeros(hour, minute, second, nanosecond, isZeroTS) ==
    LET magnitude == getSubsecondMagnitude(nanosecond)
        baseByteCount == baseByteCountsTime[magnitude]
        subsecond == nanosecond \div subsecMultipliers[magnitude]
        acc0 == Zero64
        acc1 == Or(Shl(acc0, sizeHour), I64(hour))
        acc2 == Or(Shl(acc1, sizeMinute), I64(minute))
        acc3 == Or(Shl(acc2, sizeSecond), I64(second))
        acc4 == Or(Shl(acc3, sizeSubsecond * magnitude), I64(subsecond))
        acc5 == Or(Shl(acc4, sizeMagnitude), I64(magnitude))
        acc6 == Shl(acc5, 1)
        acc7 == IF ~isZeroTS THEN Or(acc6, U64(1)) ELSE acc6
    IN encodeLE(acc7, baseByteCount)

\* encodeTime: the head bytes written to the buffer.
encodeTime(hour, minute, second, nanosecond, isZeroTS) ==
    LET magnitude == getSubsecondMagnitude(nanosecond)
        baseByteCount == baseByteCountsTime[magnitude]
        subsecond == nanosecond \div subsecMultipliers[magnitude]
        acc0 == AllOnes
        acc1 == Or(Shl(acc0, sizeHour), I64(hour))
        acc2 == Or(Shl(acc1, sizeMinute), I64(minute))
        acc3 == Or(Shl(acc2, sizeSecond), I64(second))
        acc4 == Or(Shl(acc3, sizeSubsecond * magnitude), I64(subsecond))
        acc5 == Or(Shl(acc4, sizeMagnitude), I64(magnitude))
        acc6 == Shl(acc5, 1)
        acc7 == IF ~isZeroTS THEN Or(acc6, U64(1)) ELSE acc6
    IN encodeLE(acc7, baseByteCount)

\* encodeTimestamp with the year tail taken above seven low bits whatever the
\* magnitude.
encodeTimestamp_FixedYearLowBits(year, month, day, hour, minute, second, nanosecond, isZeroTS) ==
    LET magnitude == getSubsecondMagnitude(nanosecond)
        baseByteCount == baseByteCountsTimestamp[magnitude]
        subsecond == nanosecond \div subsecMultipliers[magnitude]
        encodedYear == encodeYear(year)
        yearLowBitCount == yearLowBitCountDate
        acc0 == encodedYear
        acc1 == Or(Shl(acc0, sizeMonth), I64(month))
        acc2 == Or(Shl(acc1, sizeDay), I64(day))
        acc3 == Or(Shl(acc2, sizeHour), I64(hour))
        acc4 == Or(Shl(acc3, sizeMinute), I64(minute))
        acc5 == Or(Shl(acc4, sizeSecond), I64(second))
        acc6 == Or(Shl(acc5, sizeSubsecond * magnitude), I64(subsecond))
        acc7 == Or(Shl(acc6, sizeMagnitude), I64(magnitude))
        acc8 == Shl(acc7, 1)
        acc9 == IF ~isZeroTS THEN Or(acc8, U64(1)) ELSE acc8
    IN encodeLE(acc9, baseByteCount)
         \o uleb128EncodeUint64ToBytes(Trunc(Shr(encodedYear, yearLowBitCount), 32))

\* encodeTimestamp: the head and year bytes written to the buffer.
encodeTimestamp(year, month, day, hour, minute, second, nanosecond, isZeroTS) ==
    LET magnitude == getSubsecondMagnitude(nanosecond)
        baseByteCount == baseByteCountsTimestamp[magnitude]
        subsecond == nanosecond \div subsecMultipliers[magnitude]
        encodedYear == encodeYear(year)
        yearLowBitCount == yearLowBitCountsTimestamp[magnitude]
        acc0 == encodedYear
        acc1 == Or(Shl(acc0, sizeMonth), I64(month))
        acc2 == Or(Shl(acc1, sizeDay), I64(day))
        acc3 == Or(Shl(acc2, sizeHour), I64(hour))
        acc4 == Or(Shl(acc3, sizeMinute), I64(minute))
        acc5 == Or(Shl(acc4, sizeSecond), I64(second))
        acc6 == Or(Shl(acc5, sizeSubsecond * magnitude), I64(subsecond))
        acc7 == Or(Shl(acc6, sizeMagnitude), I64(magnitude))
        acc8 == Shl(acc7, 1)
        acc9 == IF ~isZeroTS THEN Or(acc8, U64(1)) ELSE acc8
    IN encodeLE(acc9, baseByteCount)
         \o uleb128EncodeUint64ToBytes(Trunc(Shr(encodedYear, yearLowBitCount), 32))

\* byte(n): the low eight bits.
ByteConv(n) == n % 256

\* encodeTimezoneAreaLoc with the length byte not shifted.
encodeTimezoneAreaLoc_NoShift(areaLocation) ==
    <<ByteConv(Len(areaLocation))>> \o areaLocation

encodeTimezoneAreaLoc(areaLocation) ==
    <<ByteConv(Len(areaLocation) * Pow2(shiftLength))>> \o areaLocation

\* encodeTimezoneLatLong with the latitude not masked to its field.
encodeTimezoneLatLong_NoMask(latitudeHundredths, longitudeHundredths) ==
    LET latLong == Or(Or(Shl(And(I64(longitudeHundredths), bitMask(sizeLongitude)), shiftLongitude),
                         Shl(I64(latitudeHundredths), shiftLatitude)),
                      U64(1))
    IN encode32LE(Trunc(latLong, 32))

encodeTimezoneLatLong(latitudeHundredths, longitudeHundredths) ==
    LET latLong == Or(Or(Shl(And(I64(longitudeHundredths), bitMask(sizeLongitude)), shiftLongitude),
                         Shl(And(I64(latitudeHundredths), bitMask(sizeLatitude)), shiftLatitude)),
                      U64(1))
    IN encode32LE(Trunc(latLong, 32))

\* encodeTimezoneUTCOffset with the offset not shifted above the marker byte.
encodeTimezoneUTCOffset_NoMarker(minutesOffsetFromUTC) ==
    encodeLE(I64(minutesOffsetFromUTC), byteCountUTCOffset)

encodeTimezoneUTCOffset(minutesOffsetFromUTC) ==
    encodeLE(Shl(I64(minutesOffsetFromUTC), 8), byteCountUTCOffset)

\* (*Time).encodeTimezone
TimeEncodeTimezone(this) ==
    CASE this.Timezone.Type = TimezoneTypeUTC -> <<>>
      [] this.Timezone.Type \in {TimezoneTypeAreaLocation, TimezoneTypeLocal} ->
            encodeTimezoneAreaLoc(this.Timezone.ShortAreaLocation)
      [] this.Timezone.Type = TimezoneTypeLatitudeLongitude ->
            encodeTimezoneLatLong(this.Timezone.LatitudeHundredths,
                                  this.Timezone.LongitudeHundredths)
      [] this.Timezone.Type = TimezoneTypeUTCOffset ->
            encodeTimezoneUTCOffset(this.Timezone.MinutesOffsetFromUTC)

\* (*Time).encodeDate
TimeEncodeDate(this) ==
    IF IsZeroValue(this) THEN encodeZeroDate
    ELSE encodeDate(this.Year, this.Month, this.Day)

\* (*Time).encodeTime with the local zone written like UTC, without a tail.
TimeEncodeTime_LocalAsUTC(this) ==
    IF IsZeroValue(this) THEN encodeZeroTime
    ELSE LET isZeroTS == this.Timezone.Type \in {TimezoneTypeUTC, TimezoneTypeLocal}
             head == encodeTime(this.Hour, this.Minute, this.Second, this.Nanosecond, isZeroTS)
         IN IF ~isZeroTS THEN head \o TimeEncodeTimezone(this) ELSE head

\* (*Time).encodeTime
TimeEncodeTime(this) ==
    IF IsZeroValue(this) THEN encodeZeroTime
    ELSE LET isZeroTS == this.Timezone.Type = TimezoneTypeUTC
             head == encodeTime(this.Hour, this.Minute, this.Second, this.Nanosecond, isZeroTS)
         IN IF ~isZeroTS THEN head \o TimeEncodeTimezone(this) ELSE head

\* (*Time).encodeTimestamp
TimeEncodeTimestamp(this) ==
    IF IsZeroValue(this) THEN encodeZeroTimestamp
    ELSE LET isZeroTS == this.Timezone.Type = TimezoneTypeUTC
             head == encodeTimestamp(this.Year, this.Month, this.Day, this.Hour, this.Minute,
                                     this.Second, this.Nanosecond, isZeroTS)
         IN IF ~isZeroTS THEN head \o TimeEncodeTimezone(this) ELSE head

\* (*Time).EncodeToBytes: the bytes written to a buffer that is big enough.
EncodeToBytes(this) ==
    CASE this.Type = TimeTypeDate -> TimeEncodeDate(this)
      [] this.Type = TimeTypeTime -> TimeEncodeTime(this)
      [] this.Type = TimeTypeTimestamp -> TimeEncodeTimestamp(this)

\* ------------------------------------------------------------------------
\* Decoder
\* ------------------------------------------------------------------------

\* Errors returned to the caller; NoError is nil.
NoError == "nil"
ErrEOF == "EOF"
ErrorIncomplete == "Compact time value is incomplete"
ErrYearTooBig == "Year is too big"
ErrReservedBits == "Expected reserved bits"

\* Marks in a reader between the bytes it delivers: a read that delivers no
\* byte and no error, the end of a short read, and the end of the stream
\* reported together with the last bytes.
ReadNothing == 256
ReadShort == 257
ReadLast == 258

\* The number of bytes, at most count, before the first mark of a reader.
Deliverable(reader, count) ==
    Cardinality({ i \in 1..Min(count, Len(reader)) : \A j \in 1..i : reader[j] <= 255 })

\* A reader is the sequence of bytes it has not delivered yet; it delivers
\* as many of the requested bytes as it holds (bytes.Buffer), and io.EOF when
\* it holds none.  A reader of another type may deliver fewer bytes, none at
\* all, or the last ones with io.EOF, where the sequence holds a mark.
\* reader.Read(dst) for len(dst) = count >= 1.
ReaderRead(reader, count) ==
    IF Len(reader) = 0 \/ reader = <<ReadLast>>
    THEN [data |-> <<>>, err |-> ErrEOF, rest |-> <<>>]
    ELSE IF Head(reader) = ReadNothing
    THEN [data |-> <<>>, err |-> NoError, rest |-> Tail(reader)]
    ELSE LET n == Deliverable(reader, count)
             left == SubSeq(reader, n + 1, Len(reader))
         IN IF left = <<ReadLast>>
            THEN [data |-> SubSeq(reader, 1, n), err |-> ErrEOF, rest |-> <<>>]
            ELSE [data |-> SubSeq(reader, 1, n),
                  err |-> NoError,
                  rest |-> IF left # <<>> /\ Head(left) = ReadShort THEN Tail(left) ELSE left]

\* fillSlice with a destination one byte longer than asked for.
RECURSIVE fillSlice_ReadAhead(_, _)
fillSlice_ReadAhead(reader, count) ==
    IF count <= 0 THEN [data |-> <<>>, err |-> NoError, rest |-> reader]
    ELSE LET r == ReaderRead(reader, count + 1) IN
         IF r.err # NoError THEN r
         ELSE LET more == fillSlice_ReadAhead(r.rest, count - Len(r.data)) IN
              [data |-> SubSeq(r.data \o more.data, 1, count), err |-> more.err,
               rest |-> more.rest]

\* fillSlice: reads until len(dst) = count bytes are delivered or a read fails.
RECURSIVE fillSlice(_, _)
fillSlice(reader, count) ==
    IF count <= 0 THEN [data |-> <<>>, err |-> NoError, rest |-> reader]
    ELSE LET r == ReaderRead(reader, count) IN
         IF r.err # NoError THEN r
         ELSE LET more == fillSlice(r.rest, count - Len(r.data)) IN
              [data |-> r.data \o more.data, err |-> more.err, rest |-> more.rest]

\* decodeZigzag32 without the sign: the value shifted down only.
decodeZigzag32_NoSign(value) == Trunc(Shr(value, 1), 32)

\* decodeZigzag32: int32((value >> 1) ^ -(value & 1)) on a 32-bit word.
decodeZigzag32(value) ==
    LET negated == IF value[0] = 1 THEN Trunc(AllOnes, 32) ELSE Zero64
    IN Trunc(Xor(Shr(value, 1), negated), 32)

\* decodeYear: the int of the int32 word plus yearBias.
decodeYear(encodedYear) ==
    ToInt(SignExtend(decodeZigzag32(Trunc(encodedYear, 32)), 32)) + yearBias

\* uleb128.DecodeWithByteBuffer: reads one byte at a time up to and including
\* the first byte whose top bit is clear; group i is or-ed in at bit 7*i.
\* asBig is TRUE when the value does not fit 64 bits (a big.Int is returned).
RECURSIVE uleb128Scan(_, _, _, _)
uleb128Scan(reader, count, asUint, asBig) ==
    LET r == ReaderRead(reader, 1) IN
    IF r.err # NoError
    THEN [asUint |-> asUint, asBig |-> asBig, byteCount |-> count, err |-> r.err, rest |-> r.rest]
    ELSE LET b == r.data[1]
             group == U64(b % 128)
             value == Or(asUint, Shl(group, 7 * count))
             big == asBig \/ \E i \in 0..6 : group[i] = 1 /\ 7 * count + i > 63
         IN IF b < 128
            THEN [asUint |-> value, asBig |-> big, byteCount |-> count + 1,
                  err |-> NoError, rest |-> r.rest]
            ELSE uleb128Scan(r.rest, count + 1, value, big)

uleb128DecodeWithByteBuffer(reader) == uleb128Scan(reader, 0, Zero64, FALSE)

\* reservedBitsTime with no bit set for any magnitude.
reservedBitsTime_NoneSet == [m \in 0..3 |-> 0]

reservedBitsTime == [m \in 0..3 |-> CASE m = 0 -> 15 [] m = 1 -> 3 [] m = 2 -> 0 [] m = 3 -> 63]

\* Result of a decoder: the named results and the reader after the call.
DecodeResult(time, bytesDecoded, err, rest) ==
    [time |-> time, bytesDecoded |-> bytesDecoded, err |-> err, rest |-> rest]

\* decodeTimezone: [tz, bytesDecoded, err, rest].
\* buffer holds what the caller left at the start of the scratch buffer: a
\* read that delivers nothing leaves buffer[0] as it was.
decodeTimezone(reader, buffer) ==
    LET h == ReaderRead(reader, 1) IN
    IF h.err # NoError
    THEN [tz |-> TimezoneUnset, bytesDecoded |-> 0, err |-> h.err, rest |-> h.rest]
    ELSE
    LET header == IF h.data = <<>> THEN buffer[1] ELSE h.data[1] IN
    IF header % 2 # 0
    THEN LET f == fillSlice(h.rest, 3) IN
         IF f.err # NoError
         THEN [tz |-> TimezoneUnset, bytesDecoded |-> 0, err |-> f.err, rest |-> f.rest]
         ELSE LET latLong == decode32LE(<<header>> \o f.data)
                  longitudeHundredths == ToInt(Sar(latLong, 32, shiftLongitude))
                  latitudeHundredths == ToInt(Sar(Trunc(Shl(latLong, 16), 32), 32, 17))
              IN [tz |-> InitWithLatLong(TimezoneUnset, latitudeHundredths, longitudeHundredths),
                  bytesDecoded |-> 4, err |-> NoError, rest |-> f.rest]
    ELSE
    LET stringLength == header \div 2 IN
    IF stringLength = 0
    THEN LET f == fillSlice(h.rest, 2) IN
         IF f.err # NoError
         THEN [tz |-> TimezoneUnset, bytesDecoded |-> 0, err |-> f.err, rest |-> f.rest]
         ELSE LET minutesRaw == decode16LE(f.data)
                  maskNegative == U64(61440)
                  maskPositive == U64(4095)
                  minutes == IF ~IsZero(And(minutesRaw, U64(2048)))
                             THEN ToInt(SignExtend(Trunc(Or(minutesRaw, maskNegative), 16), 16))
                             ELSE ToInt(SignExtend(Trunc(And(minutesRaw, maskPositive), 16), 16))
              IN [tz |-> InitWithMinutesOffsetFromUTC(TimezoneUnset, minutes),
                  bytesDecoded |-> 3, err |-> NoError, rest |-> f.rest]
    ELSE
    LET f == fillSlice(h.rest, stringLength) IN
    IF f.err # NoError
    THEN [tz |-> TimezoneUnset, bytesDecoded |-> 0, err |-> f.err, rest |-> f.rest]
    ELSE IF stringLength = 1 /\ f.data[1] = 76
         THEN [tz |-> TZLocal, bytesDecoded |-> stringLength + 1, err |-> NoError, rest |-> f.rest]
         ELSE IF stringLength = 1 /\ f.data[1] = 90
         THEN [tz |-> TZAtUTC, bytesDecoded |-> stringLength + 1, err |-> NoError, rest |-> f.rest]
         ELSE [tz |-> InitWithAreaLocation(TimezoneUnset, f.data),
               bytesDecoded |-> stringLength + 1, err |-> NoError, rest |-> f.rest]

\* DecodeDateWithBuffer without the comparison of encodedYear with 0xffffffff.
DecodeDateWithBuffer_NoYearLimit(reader) ==
    LET f == fillSlice(reader, 2) IN
    IF f.err # NoError THEN DecodeResult(TimeUnset, 0, f.err, f.rest)
    ELSE
    LET acc0 == decode16LE(f.data)
        day == Field(acc0, 0, sizeDay)
        acc1 == Shr(acc0, sizeDay)
        month == Field(acc1, 0, sizeMonth)
        acc2 == Shr(acc1, sizeMonth)
        u == uleb128DecodeWithByteBuffer(f.rest)
    IN
    IF u.err # NoError THEN DecodeResult(TimeUnset, 2, u.err, u.rest)
    ELSE IF u.asBig THEN DecodeResult(TimeUnset, 2 + u.byteCount, ErrYearTooBig, u.rest)
    ELSE
    LET encodedYear == Or(Shl(u.asUint, 7), acc2) IN
    IF u.byteCount * 7 + yearLowBitCountDate > 64
    THEN DecodeResult(TimeUnset, 2 + u.byteCount, ErrYearTooBig, u.rest)
    ELSE
    LET year == decodeYear(Trunc(encodedYear, 32)) IN
    IF year = 2000 /\ month = 0 /\ day = 0
    THEN DecodeResult(ZeroDate, 2 + u.byteCount, NoError, u.rest)
    ELSE DecodeResult(NewDate(year, month, day), 2 + u.byteCount, NoError, u.rest)

DecodeDateWithBuffer(reader) ==
    LET f == fillSlice(reader, 2) IN
    IF f.err # NoError THEN DecodeResult(TimeUnset, 0, f.err, f.rest)
    ELSE
    LET acc0 == decode16LE(f.data)
        day == Field(acc0, 0, sizeDay)
        acc1 == Shr(acc0, sizeDay)
        month == Field(acc1, 0, sizeMonth)
        acc2 == Shr(acc1, sizeMonth)
        u == uleb128DecodeWithByteBuffer(f.rest)
    IN
    IF u.err # NoError THEN DecodeResult(TimeUnset, 2, u.err, u.rest)
    ELSE IF u.asBig THEN DecodeResult(TimeUnset, 2 + u.byteCount, ErrYearTooBig, u.rest)
    ELSE
    LET encodedYear == Or(Shl(u.asUint, 7), acc2) IN
    IF ~IsZero(Shr(encodedYear, 32)) \/ u.byteCount * 7 + yearLowBitCountDate > 64
    THEN DecodeResult(TimeUnset, 2 + u.byteCount, ErrYearTooBig, u.rest)
    ELSE
    LET year == decodeYear(Trunc(encodedYear, 32)) IN
    IF year = 2000 /\ month = 0 /\ day = 0
    THEN DecodeResult(ZeroDate, 2 + u.byteCount, NoError, u.rest)
    ELSE DecodeResult(NewDate(year, month, day), 2 + u.byteCount, NoError, u.rest)

DecodeTimeWithBuffer(reader) ==
    LET h == ReaderRead(reader, 1) IN
    IF h.err # NoError THEN DecodeResult(TimeUnset, 0, h.err, h.rest)
    ELSE
    LET header == IF h.data = <<>> THEN 0 ELSE h.data[1]
        magnitude == (header \div 2) % Pow2(sizeMagnitude)
        baseByteCount == baseByteCountsTime[magnitude]
        f == fillSlice(h.rest, baseByteCount - 1)
    IN
    IF f.err # NoError THEN DecodeResult(TimeUnset, 0, f.err, f.rest)
    ELSE
    LET subsecondMultiplier == subsecMultipliers[magnitude]
        sizeSubseconds == sizeSubsecond * magnitude
        acc0 == decodeLE(<<header>> \o f.data, baseByteCount)
        hasTimezone == acc0[0] = 1
        acc1 == Shr(Shr(acc0, 1), sizeMagnitude)
        nanosecond == Field(acc1, 0, sizeSubseconds) * subsecondMultiplier
        acc2 == Shr(acc1, sizeSubseconds)
        second == Field(acc2, 0, sizeSecond)
        acc3 == Shr(acc2, sizeSecond)
        minute == Field(acc3, 0, sizeMinute)
        acc4 == Shr(acc3, sizeMinute)
        hour == Field(acc4, 0, sizeHour)
        acc5 == Shr(acc4, sizeHour)
        expectedReservedBits == U64(reservedBitsTime[magnitude])
    IN
    IF acc5 # expectedReservedBits
    THEN IF IsZero(acc5)
         THEN DecodeResult(ZeroTime, baseByteCount, NoError, f.rest)
         ELSE DecodeResult(TimeUnset, baseByteCount, ErrReservedBits, f.rest)
    ELSE IF ~hasTimezone
    THEN DecodeResult(InitTime(TimeUnset, hour, minute, second, nanosecond, timezoneUTC),
                      baseByteCount, NoError, f.rest)
    ELSE LET z == decodeTimezone(f.rest, <<header>> \o f.data) IN
         DecodeResult(InitTime(TimeUnset, hour, minute, second, nanosecond, z.tz),
                      baseByteCount + z.bytesDecoded, z.err, z.rest)

DecodeTimestampWithBuffer(reader) ==
    LET h == ReaderRead(reader, 1) IN
    IF h.err # NoError THEN DecodeResult(TimeUnset, 0, h.err, h.rest)
    ELSE
    LET header == IF h.data = <<>> THEN 0 ELSE h.data[1]
        magnitude == (header \div 2) % Pow2(sizeMagnitude)
        subsecondMultiplier == subsecMultipliers[magnitude]
        sizeSubseconds == sizeSubsecond * magnitude
        baseByteCount == baseByteCountsTimestamp[magnitude]
        f == fillSlice(h.rest, baseByteCount - 1)
    IN
    IF f.err # NoError THEN DecodeResult(TimeUnset, 0, f.err, f.rest)
    ELSE
    LET acc0 == decodeLE(<<header>> \o f.data, baseByteCount)
        hasTimezone == acc0[0] = 1
        acc1 == Shr(Shr(acc0, 1), sizeMagnitude)
        nanosecond == Field(acc1, 0, sizeSubseconds) * subsecondMultiplier
        acc2 == Shr(acc1, sizeSubseconds)
        second == Field(acc2, 0, sizeSecond)
        acc3 == Shr(acc2, sizeSecond)
        minute == Field(acc3, 0, sizeMinute)
        acc4 == Shr(acc3, sizeMinute)
        hour == Field(acc4, 0, sizeHour)
        acc5 == Shr(acc4, sizeHour)
        day == Field(acc5, 0, sizeDay)
        acc6 == Shr(acc5, sizeDay)
        month == Field(acc6, 0, sizeMonth)
        acc7 == Shr(acc6, sizeMonth)
        yearLowBitCount == yearLowBitCountsTimestamp[magnitude]
        u == uleb128DecodeWithByteBuffer(f.rest)
    IN
    IF u.err # NoError THEN DecodeResult(TimeUnset, baseByteCount, u.err, u.rest)
    ELSE IF u.asBig
    THEN DecodeResult(TimeUnset, baseByteCount + u.byteCount, ErrYearTooBig, u.rest)
    ELSE
    LET encodedYear == Or(Shl(u.asUint, yearLowBitCount), acc7) IN
    IF ~IsZero(Shr(encodedYear, 32)) \/ u.byteCount * 7 + yearLowBitCount > 64
    THEN DecodeResult(TimeUnset, baseByteCount + u.byteCount, ErrYearTooBig, u.rest)
    ELSE
    LET year == decodeYear(Trunc(encodedYear, 32)) IN
    IF ~hasTimezone
    THEN IF year = 2000 /\ month = 0 /\ day = 0
         THEN DecodeResult(ZeroTimestamp, baseByteCount + u.byteCount, NoError, u.rest)
         ELSE DecodeResult(InitTimestamp(TimeUnset, year, month, day, hour, minute, second,
                                         nanosecond, timezoneUTC),
                           baseByteCount + u.byteCount, NoError, u.rest)
    \* What uleb128.DecodeWithByteBuffer leaves in the scratch buffer is not
    \* this package's to say: no known byte is handed on.
    ELSE LET z == decodeTimezone(u.rest, <<>>) IN
         DecodeResult(InitTimestamp(TimeUnset, year, month, day, hour, minute, second,
                                    nanosecond, z.tz),
                      baseByteCount + u.byteCount + z.bytesDecoded, z.err, z.rest)

\* ------------------------------------------------------------------------
\* Inputs of the operations
\* ------------------------------------------------------------------------

\* Largest number of values written back to back to one stream, and of
\* further bytes that follow them.
MaxValues == 2
MaxTrail == 1

TrailBytes == {0, 255}

\* "Foo/" followed by n - 4 letters "a": an area/location name of n bytes.
LongName(n) == <<70, 111, 111, 47>> \o [i \in 1..(n - 4) |-> 97]

NameAsiaSingapore == <<65, 115, 105, 97, 47, 83, 105, 110, 103, 97, 112, 111, 114, 101>>
NameEuropeBerlin == <<69, 117, 114, 111, 112, 101, 47, 66, 101, 114, 108, 105, 110>>
NameEtcGMT == <<69, 116, 99, 47, 71, 77, 84>>
NameLocal == <<76, 111, 99, 97, 108>>
NameX == <<88>>

\* Arguments of the zone constructors.
ZoneArgs ==
    { <<"utc">>, <<"local">>,
      <<"area", <<>>>>, <<"area", NameEtcGMT>>, <<"area", NameLocal>>, <<"area", NameAsiaSingapore>>,
      <<"area", NameX>>, <<"area", LongName(127)>>, <<"area", LongName(128)>>,
      <<"latlong", 5994, 1071>>, <<"latlong", 9000, 18000>>, <<"latlong", -9000, -18000>>,
      <<"latlong", 9001, 0>>,
      <<"offset", 1000>>, <<"offset", 1439>>, <<"offset", -1439>>, <<"offset", 1440>> }

\* The names that areaLocationToTimezoneType maps to UTC.
UtcNames ==
    { e[1] : e \in { x \in areaLocationToTimezoneTypeTable :
                         x[2] \in {internalTZUTC, internalTZUTCPreserve} } }

\* The zone a zone constructor returns.
MakeZone(z) ==
    CASE z[1] = "utc" -> TZAtUTC
      [] z[1] = "local" -> TZLocal
      [] z[1] = "area" -> TZAtAreaLocation(z[2])
      [] z[1] = "latlong" -> TZAtLatLong(z[2], z[3])
      [] z[1] = "offset" -> TZWithMiutesOffsetFromUTC(z[2])

YearArgs == {2000, 1966, 2020, -2000, 3190, 131071, -131072}

\* <<month, day>>
MonthDayArgs == { <<1, 1>>, <<2, 29>>, <<8, 30>>, <<12, 21>>, <<12, 31>>, <<13, 1>> }

\* <<month, day, hour, minute, second>>
DateTimeArgs == { <<1, 1, 0, 0, 0>>, <<8, 30, 15, 33, 14>>, <<12, 31, 23, 59, 60>> }

\* <<hour, minute, second>>
TimeOfDayArgs == { <<0, 0, 0>>, <<8, 41, 5>>, <<15, 33, 14>>, <<23, 59, 60>>, <<24, 0, 0>> }

NanosecondArgs == {0, 1000000, 999000000, 999999000, 999999999, 999, 19577323}

\* Zones that are combined with every year and time of day; the other zones
\* are combined with every sub-second value.
CoreZoneArgs == { <<"utc">>, <<"offset", 1000>> }

\* Arguments of NewDate: <<year, month, day>>.
DateArgs == { <<year, md[1], md[2]>> : year \in YearArgs, md \in MonthDayArgs }

\* Arguments of NewTime: <<hour, minute, second, nanosecond, zone>>.
TimeArgs ==
    { <<t[1], t[2], t[3], n, z>> : t \in TimeOfDayArgs, n \in NanosecondArgs, z \in CoreZoneArgs }
    \cup { <<8, 41, 5, n, z>> : n \in NanosecondArgs, z \in ZoneArgs }
    \cup { <<8, 41, 5, 0, <<"area", name>>>> : name \in UtcNames }

\* Arguments of NewTimestamp: <<year, month, day, hour, minute, second, nanosecond, zone>>.
TimestampArgs ==
    { <<y, 1, 1, 0, 0, 0, n, z>> : y \in YearArgs, n \in NanosecondArgs, z \in CoreZoneArgs }
    \cup { <<2000, d[1], d[2], d[3], d[4], d[5], n, <<"utc">>>> :
               d \in DateTimeArgs, n \in NanosecondArgs }
    \cup { <<2020, 8, 30, 15, 33, 14, n, z>> : n \in NanosecondArgs, z \in ZoneArgs }

\* Arguments of the constructors for a value written after another one.
NextDateArgs == { <<-50000, 1, 1>> }
NextTimeArgs == { <<14, 18, 30, 43000000, <<"area", NameEuropeBerlin>>>> }
NextTimestampArgs == { <<1966, 12, 1, 5, 13, 5, 0, <<"utc">>>> }

\* ------------------------------------------------------------------------
\* State
\* ------------------------------------------------------------------------

VARIABLES
    pc,         \* "idle", "built", "validated", "encoded", "filled", "truncated",
                \* "decoded", "panic", "equivalent" or "different" after
                \* IsEquivalentTo returned true or false, or
                \* "readDate", "readTime", "readTimestamp" after a decoder was
                \* handed bytes that no encoder wrote
    time,       \* the value object last constructed
    size,       \* what EncodedSize returned for it
    buffer,     \* the bytes EncodeToBytes wrote for it
    reader,     \* the bytes of the stream that are not read yet
    written,    \* the values encoded to the stream and not decoded yet, each
                \* with the bytes written for it
    trail,      \* the number of further bytes in the stream behind them
    result,     \* what the last decoder call returned
    consumed,   \* the number of bytes the last decoder call took from the reader
    expected,   \* the value at the front of the stream when that call started,
                \* or the value `time` was compared with
    encoding,   \* the bytes that were written for that value
    before      \* the bytes of the stream when that call started

vars ==
    <<pc, time, size, buffer, reader, written, trail, result, consumed, expected, encoding,
      before>>

NoResult == [time |-> TimeUnset, bytesDecoded |-> 0, err |-> NoError]

Init ==
    /\ pc = "idle"
    /\ time = TimeUnset
    /\ size = 0
    /\ buffer = <<>>
    /\ reader = <<>>
    /\ written = <<>>
    /\ trail = 0
    /\ result = NoResult
    /\ consumed = 0
    /\ expected = TimeUnset
    /\ encoding = <<>>
    /\ before = <<>>

\* A value can be constructed before anything is written, or to be written
\* behind the values already in the stream.
CanConstruct ==
    \/ pc = "idle"
    \/ pc = "encoded" /\ Len(written) < MaxValues /\ trail = 0

Construct(value) ==
    /\ CanConstruct
    /\ time' = value
    /\ pc' = "built"
    /\ UNCHANGED <<size, buffer, reader, written, trail, result, consumed, expected, encoding,
                    before>>

\* The zero instances are written at the start of a stream.
DoZeroDate == pc = "idle" /\ Construct(ZeroDate)

DoZeroTime == pc = "idle" /\ Construct(ZeroTime)

DoZeroTimestamp == pc = "idle" /\ Construct(ZeroTimestamp)

DoNewDate ==
    \E a \in IF written = <<>> THEN DateArgs ELSE NextDateArgs :
        Construct(NewDate(a[1], a[2], a[3]))

DoNewTime ==
    \E a \in IF written = <<>> THEN TimeArgs ELSE NextTimeArgs :
        Construct(NewTime(a[1], a[2], a[3], a[4], MakeZone(a[5])))

DoNewTimestamp ==
    \E a \in IF written = <<>> THEN TimestampArgs ELSE NextTimestampArgs :
        Construct(NewTimestamp(a[1], a[2], a[3], a[4], a[5], a[6], a[7], MakeZone(a[8])))

\* (*Time).Encode(writer): a buffer of EncodedSize bytes is filled by
\* EncodeToBytes and written to the stream; a panic of EncodedSize, or writing
\* past the end of the buffer, ends the call without a result.
DoEncode ==
    /\ pc = "built"
    /\ IF EncodedSizePanics(time)
       THEN /\ pc' = "panic"
            /\ UNCHANGED <<size, buffer, reader, written>>
       ELSE \E count \in {EncodedSize(time)}, bytes \in {EncodeToBytes(time)} :
              /\ size' = count
              /\ buffer' = bytes
              /\ IF Len(bytes) > count
                 THEN /\ pc' = "panic"
                      /\ UNCHANGED <<reader, written>>
                 ELSE /\ pc' = "encoded"
                      /\ reader' = reader \o bytes
                      /\ written' = Append(written, [value |-> time, bytes |-> bytes])
    /\ UNCHANGED <<time, trail, result, consumed, expected, encoding, before>>

\* The stream goes on with further bytes behind the values.
DoAppendByte ==
    /\ pc = "encoded"
    /\ trail < MaxTrail
    /\ \E b \in TrailBytes : reader' = Append(reader, b)
    /\ trail' = trail + 1
    /\ UNCHANGED <<pc, time, size, buffer, written, result, consumed, expected, encoding,
                    before>>

Decoded(r) ==
    /\ pc \in {"encoded", "truncated", "decoded"}
    /\ written # <<>>
    /\ result' = [time |-> r.time, bytesDecoded |-> r.bytesDecoded, err |-> r.err]
    /\ consumed' = Len(reader) - Len(r.rest)
    /\ reader' = r.rest
    /\ expected' = Head(written).value
    /\ encoding' = Head(written).bytes
    /\ before' = reader
    /\ written' = Tail(written)
    /\ pc' = "decoded"
    /\ UNCHANGED <<time, size, buffer, trail>>

DoDecodeDate ==
    /\ written # <<>>
    /\ Head(written).value.Type = TimeTypeDate
    /\ \E r \in {DecodeDateWithBuffer(reader)} : Decoded(r)

DoDecodeTime ==
    /\ written # <<>>
    /\ Head(written).value.Type = TimeTypeTime
    /\ \E r \in {DecodeTimeWithBuffer(reader)} : Decoded(r)

DoDecodeTimestamp ==
    /\ written # <<>>
    /\ Head(written).value.Type = TimeTypeTimestamp
    /\ \E r \in {DecodeTimestampWithBuffer(reader)} : Decoded(r)

Next ==
    \/ DoZeroDate
    \/ DoZeroTime
    \/ DoZeroTimestamp
    \/ DoNewDate
    \/ DoNewTime
    \/ DoNewTimestamp
    \/ DoEncode
    \/ DoAppendByte
    \/ DoDecodeDate
    \/ DoDecodeTime
    \/ DoDecodeTimestamp

Spec == Init /\ [][Next]_vars

\* ------------------------------------------------------------------------
\* Time zones, one value at a time
\* ------------------------------------------------------------------------

\* Offsets handed to TZWithMiutesOffsetFromUTC, and hundredths of degrees
\* handed to TZAtLatLong.
OffsetSweep == (0 - 1440)..1440

LatitudeSweep ==
    { 0 - 9000, 0 - 8999, 0 - 8193, 0 - 8192, 0 - 8191, 0 - 4096, 0 - 257, 0 - 256,
      0 - 129, 0 - 128, 0 - 1, 0, 1, 127, 128, 255, 256, 4095, 4096, 5994, 8191, 8192,
      8193, 8999, 9000 }

LongitudeSweep ==
    { 0 - 18000, 0 - 17999, 0 - 16385, 0 - 16384, 0 - 16383, 0 - 8192, 0 - 257, 0 - 256,
      0 - 129, 0 - 128, 0 - 1, 0, 1, 127, 128, 255, 256, 1071, 8191, 8192, 16383, 16384,
      16385, 17999, 18000 }

DoNewTimeWithOffset ==
    /\ pc = "idle"
    /\ \E m \in OffsetSweep :
          Construct(NewTime(8, 41, 5, 0, TZWithMiutesOffsetFromUTC(m)))

DoNewTimeWithLatLong ==
    /\ pc = "idle"
    /\ \E lat \in LatitudeSweep, lon \in LongitudeSweep :
          Construct(NewTime(8, 41, 5, 0, TZAtLatLong(lat, lon)))

NextZone ==
    \/ DoNewTimeWithOffset
    \/ DoNewTimeWithLatLong
    \/ DoEncode
    \/ DoAppendByte
    \/ DoDecodeTime

SpecZone == Init /\ [][NextZone]_vars

\* ------------------------------------------------------------------------
\* Values and buffers the caller makes up
\* ------------------------------------------------------------------------

\* Time{...} written as a composite literal: the kind and the zone type are
\* any uint8 the caller likes.
KindTags == 0..3
ZoneTags == 0..6

DoLiteral ==
    /\ pc = "idle"
    /\ \E kind \in KindTags, zone \in ZoneTags, year \in {0, 2020}, nanosecond \in {0, 500} :
          time' = [Type |-> kind, Year |-> year, Month |-> 8, Day |-> 30, Hour |-> 15,
                   Minute |-> 33, Second |-> 14, Nanosecond |-> nanosecond,
                   Timezone |-> [TimezoneUnset EXCEPT !.Type = zone]]
    /\ pc' = "built"
    /\ UNCHANGED <<size, buffer, reader, written, trail, result, consumed, expected, encoding,
                    before>>

\* Lengths of the buffer handed to EncodeToBytes.
BufferLengths == 0..6

\* (*Time).EncodeToBytes(buffer) of a zero value: the switch on the kind
\* panics at its default; encodeZeroBytes panics when the buffer is shorter
\* than the zero pattern and copies the pattern to its front otherwise.
DoEncodeToBytes ==
    /\ pc = "built"
    /\ IsZeroValue(time)
    /\ \E length \in BufferLengths :
          IF time.Type \notin {TimeTypeDate, TimeTypeTime, TimeTypeTimestamp}
          THEN pc' = "panic" /\ UNCHANGED buffer
          ELSE IF length < byteCountsZeroValue[time.Type]
          THEN pc' = "panic" /\ UNCHANGED buffer
          ELSE /\ pc' = "filled"
               /\ buffer' = EncodeToBytes(time) \o
                               [i \in 1..(length - byteCountsZeroValue[time.Type]) |-> 0]
    /\ UNCHANGED <<time, size, reader, written, trail, result, consumed, expected, encoding,
                    before>>

NextLiteral ==
    \/ DoLiteral
    \/ DoEncode
    \/ DoEncodeToBytes

SpecLiteral == Init /\ [][NextLiteral]_vars

\* ------------------------------------------------------------------------
\* Values with fields in and out of range
\* ------------------------------------------------------------------------

YearSweep == {-131072, -1, 0, 1, 2000, 131071}
MonthSweep == 0..13
DaySweep == 0..32

\* <<hour, minute, second, nanosecond>>
ClockSweep ==
    { <<h, m, s, n>> : h \in {0, 23, 24}, m \in {0, 59, 60}, s \in {0, 60, 61},
                       n \in {0, 999999999, 1000000000} }

ZoneSweep ==
    { <<"utc">>, <<"local">>, <<"area", NameEuropeBerlin>>, <<"area", LongName(127)>>,
      <<"area", LongName(128)>> } \cup
    { <<"latlong", lat, lon>> : lat \in {-9001, -9000, 0, 9000, 9001},
                                lon \in {-18001, -18000, 0, 18000, 18001} } \cup
    { <<"offset", m>> : m \in {-1440, -1439, -1, 1, 1439, 1440} }

DoSweepDate ==
    /\ pc = "idle"
    /\ \E year \in YearSweep, month \in MonthSweep, day \in DaySweep :
          Construct(NewDate(year, month, day))

DoSweepTime ==
    /\ pc = "idle"
    /\ \E c \in ClockSweep, z \in ZoneSweep :
          Construct(NewTime(c[1], c[2], c[3], c[4], MakeZone(z)))

DoSweepTimestamp ==
    /\ pc = "idle"
    /\ \E year \in YearSweep,
          md \in {<<0, 1>>, <<1, 0>>, <<1, 31>>, <<2, 29>>, <<2, 30>>, <<4, 31>>, <<12, 31>>,
                  <<13, 1>>},
          c \in {<<0, 0, 0, 0>>, <<23, 59, 60, 999999999>>, <<24, 0, 0, 0>>, <<0, 0, 61, 0>>},
          z \in {<<"utc">>, <<"offset", 1440>>, <<"offset", -1439>>, <<"latlong", 0, 18001>>,
                 <<"area", LongName(128)>>} :
          Construct(NewTimestamp(year, md[1], md[2], c[1], c[2], c[3], c[4], MakeZone(z)))

\* (*Time).Validate: the error it returns is nil or one of its messages.
DoValidate ==
    /\ pc = "built"
    /\ result' = [NoResult EXCEPT !.err = IF Validate(time) THEN NoError ELSE "Invalid"]
    /\ pc' = "validated"
    /\ UNCHANGED <<time, size, buffer, reader, written, trail, consumed, expected, encoding,
                    before>>

NextValue ==
    \/ DoZeroDate
    \/ DoZeroTime
    \/ DoZeroTimestamp
    \/ DoSweepDate
    \/ DoSweepTime
    \/ DoSweepTimestamp
    \/ DoLiteral
    \/ DoValidate

SpecValue == Init /\ [][NextValue]_vars

\* ------------------------------------------------------------------------
\* Two values
\* ------------------------------------------------------------------------

\* The values the value last constructed is compared with.
OtherValues ==
    { NewTime(8, 41, 5, 0, MakeZone(z)) : z \in ZoneArgs } \cup
    { NewTime(8, 41, 5, 1000000, TZAtUTC), NewTime(8, 41, 6, 0, TZAtUTC),
      NewTime(0, 0, 0, 0, TZAtUTC), NewTime(0, 0, 0, 0, TZLocal),
      NewTimestamp(0, 0, 0, 8, 41, 5, 0, TZAtUTC),
      NewTimestamp(0, 0, 0, 8, 41, 5, 0, TZLocal),
      NewTimestamp(0, 0, 0, 8, 41, 5, 0, TZAtLatLong(5994, 1071)),
      NewTimestamp(2000, 1, 1, 0, 0, 0, 0, TZAtUTC),
      NewTimestamp(2000, 1, 1, 0, 0, 0, 0, TZAtAreaLocation(NameEtcGMT)),
      NewTimestamp(2000, 1, 1, 0, 0, 0, 0, TZWithMiutesOffsetFromUTC(1000)),
      NewTimestamp(2020, 1, 1, 0, 0, 0, 0, TZAtUTC),
      NewDate(2000, 1, 1), NewDate(2000, 12, 31), NewDate(2020, 1, 1), NewDate(0, 0, 0),
      ZeroDate, ZeroTime, ZeroTimestamp }

\* this.IsEquivalentTo(that) for the value last constructed.
DoIsEquivalentTo ==
    /\ pc = "built"
    /\ \E that \in OtherValues :
          /\ expected' = that
          /\ pc' = IF IsEquivalentTo(time, that) THEN "equivalent" ELSE "different"
    /\ UNCHANGED <<time, size, buffer, reader, written, trail, result, consumed, encoding,
                    before>>

NextEquivalence ==
    \/ DoZeroDate
    \/ DoZeroTime
    \/ DoZeroTimestamp
    \/ DoNewDate
    \/ DoNewTime
    \/ DoNewTimestamp
    \/ DoIsEquivalentTo

SpecEquivalence == Init /\ [][NextEquivalence]_vars

\* ------------------------------------------------------------------------
\* Streams that end early
\* ------------------------------------------------------------------------

\* The stream holds one value and ends before the last byte of it: the reader
\* is left with a strict prefix of the bytes written, the empty one included.
DoTruncate ==
    /\ pc = "encoded"
    /\ Len(written) = 1
    /\ trail = 0
    /\ \E n \in 0..(Len(reader) - 1) : reader' = SubSeq(reader, 1, n)
    /\ pc' = "truncated"
    /\ UNCHANGED <<time, size, buffer, written, trail, result, consumed, expected, encoding,
                    before>>

NextTruncated ==
    \/ DoZeroDate
    \/ DoZeroTime
    \/ DoZeroTimestamp
    \/ DoNewDate
    \/ DoNewTime
    \/ DoNewTimestamp
    \/ DoEncode
    \/ DoTruncate
    \/ DoDecodeDate
    \/ DoDecodeTime
    \/ DoDecodeTimestamp

SpecTruncated == Init /\ [][NextTruncated]_vars

\* ------------------------------------------------------------------------
\* Streams that no encoder wrote
\* ------------------------------------------------------------------------

\* Largest number of bytes in the year tail of such a stream.
MaxYearGroups == 11

\* The last byte of a year tail, and the bytes before it.
LastGroups == {0, 1, 2, 4, 8, 15, 16, 32, 63, 64, 127}

YearTails ==
    { [i \in 1..n |-> IF i = n THEN g ELSE fill] :
        n \in 1..MaxYearGroups, g \in LastGroups, fill \in {128, 255} }

\* Heads of January 1st whose year bits are 1 or all ones.
RawDateHeads == { <<33, 2>>, <<33, 254>> }

RawDateStreams == { h \o t : h \in RawDateHeads, t \in YearTails }

\* The head of January 1st, 00:00:00 with magnitude m, without a zone.
RawTimestampHead(m, yearLow) ==
    encodeLE(Or(Or(Or(U64(2 * m), Shl(U64(1), 19 + 10 * m)), Shl(U64(1), 24 + 10 * m)),
                Shl(U64(yearLow), 29 + 10 * m)),
             baseByteCountsTimestamp[m])

RawTimestampHeads ==
    { RawTimestampHead(m, y) :
        m \in 0..3, y \in {1} } \cup
    { RawTimestampHead(m, Pow2(yearLowBitCountsTimestamp[m]) - 1) : m \in 0..3 }

RawTimestampStreams == { h \o t : h \in RawTimestampHeads, t \in YearTails }

\* The head of a time with magnitude m, with the bits above the hour field
\* set to `reserved`.
RawTimeHead(m, hasZone, hour, minute, second, subsecond, reserved) ==
    encodeLE(Or(Or(Or(U64(hasZone + 2 * m), Shl(U64(subsecond), 3)),
                   Or(Shl(U64(second), 3 + 10 * m), Shl(U64(minute), 9 + 10 * m))),
                Or(Shl(U64(hour), 15 + 10 * m), Shl(U64(reserved), 20 + 10 * m))),
             baseByteCountsTime[m])

\* Hour, minute, second and sub-second fields of such heads.
RawTimeFields(m) ==
    { <<0, 0, 0, 0>>, <<8, 41, 5, IF m = 0 THEN 0 ELSE 1>>,
      <<23, 59, 60, Pow2(10 * m) - 1>> }

\* Every value of the bits above the hour field.
RawReservedBits(m) == 0..(Pow2(8 * baseByteCountsTime[m] - 20 - 10 * m) - 1)

\* The zone tail of "L".
RawTailLocal == <<2, 76>>

\* Zone tails spelling a latitude of 15 bits and a longitude of 16 bits, or
\* an offset of 12 bits below four bits that are zero or one.
RawTailLatLong(latitude, longitude) ==
    LET low == 2 * ((latitude + 32768) % 32768) + 1
        high == (longitude + 65536) % 65536
    IN <<low % 256, low \div 256, high % 256, high \div 256>>

RawTailOffset(minutes, above) ==
    LET raw == ((minutes + 4096) % 4096) + 4096 * above
    IN <<0, raw % 256, raw \div 256>>

RawZoneTails ==
    { RawTailLatLong(lat, lon) :
        lat \in {-16384, -9001, -9000, 0, 9000, 9001, 16383},
        lon \in {-32768, -18001, -18000, 0, 18000, 18001, 32767} } \cup
    { RawTailOffset(m, above) :
        m \in {-2048, -1440, -1439, 0, 1439, 1440, 2047}, above \in {0, 15} }

RawTimeStreams ==
    UNION { { RawTimeHead(m, 0, f[1], f[2], f[3], f[4], r) :
                f \in RawTimeFields(m), r \in RawReservedBits(m) } \cup
            { RawTimeHead(m, 1, 8, 41, 5, 0, r) \o RawTailLocal :
                r \in RawReservedBits(m) } : m \in 0..3 } \cup
    { RawTimeHead(0, 1, 8, 41, 5, 0, 15) \o tail : tail \in RawZoneTails }

\* A decoder is handed a reader over `raw`.
Read(raw, r, label) ==
    /\ pc = "idle"
    /\ before' = raw
    /\ result' = [time |-> r.time, bytesDecoded |-> r.bytesDecoded, err |-> r.err]
    /\ consumed' = Len(raw) - Len(r.rest)
    /\ reader' = r.rest
    /\ pc' = label
    /\ UNCHANGED <<time, size, buffer, written, trail, expected, encoding>>

DoReadDate ==
    \E raw \in RawDateStreams :
        \E r \in {DecodeDateWithBuffer(raw)} : Read(raw, r, "readDate")

DoReadTimestamp ==
    \E raw \in RawTimestampStreams :
        \E r \in {DecodeTimestampWithBuffer(raw)} : Read(raw, r, "readTimestamp")

DoReadTime ==
    \E raw \in RawTimeStreams :
        \E r \in {DecodeTimeWithBuffer(raw)} : Read(raw, r, "readTime")

NextRaw ==
    \/ DoReadDate
    \/ DoReadTime
    \/ DoReadTimestamp

SpecRaw == Init /\ [][NextRaw]_vars

\* ------------------------------------------------------------------------
\* Streams close to the all-zero patterns
\* ------------------------------------------------------------------------

\* Year tails that spell 0: one byte, or padded with continuation bytes.
ZeroYearTails == { <<0>>, <<128, 0>>, <<128, 128, 0>> }

\* Date heads of year 2000 whose month and day are 0, or January 1st.
NearZeroDateStreams == { h \o t : h \in { <<0, 0>>, <<33, 0>> }, t \in ZeroYearTails }

\* The head of a timestamp of year 2000, month 0, day 0.
NearZeroTimestampHead(m, hasZone, hour, minute, second, subsecond) ==
    encodeLE(Or(Or(U64(hasZone + 2 * m), Shl(U64(subsecond), 3)),
                Or(Or(Shl(U64(second), 3 + 10 * m), Shl(U64(minute), 9 + 10 * m)),
                   Shl(U64(hour), 15 + 10 * m))),
             baseByteCountsTimestamp[m])

\* Hour, minute, second and sub-second fields of such heads.
NearZeroFields(m) ==
    { <<hour, minute, second, subsecond>> :
        hour \in {0, 8}, minute \in {0, 41}, second \in {0, 5},
        subsecond \in IF m = 0 THEN {0} ELSE {0, 1} }

NearZeroTimestampStreams ==
    UNION { { NearZeroTimestampHead(m, 0, f[1], f[2], f[3], f[4]) \o t :
                f \in NearZeroFields(m), t \in ZeroYearTails } \cup
            { NearZeroTimestampHead(m, 1, 0, 0, 0, 0) \o <<0>> \o RawTailLocal } : m \in 0..3 }

\* Time heads whose bits above the hour field are all zero.
NearZeroTimeStreams ==
    UNION { { RawTimeHead(m, 0, f[1], f[2], f[3], f[4], 0) : f \in NearZeroFields(m) } \cup
            { RawTimeHead(m, 1, 0, 0, 0, 0, 0) \o RawTailLocal } : m \in 0..3 }

DoReadNearZeroDate ==
    \E raw \in NearZeroDateStreams :
        \E r \in {DecodeDateWithBuffer(raw)} : Read(raw, r, "readDate")

DoReadNearZeroTimestamp ==
    \E raw \in NearZeroTimestampStreams :
        \E r \in {DecodeTimestampWithBuffer(raw)} : Read(raw, r, "readTimestamp")

DoReadNearZeroTime ==
    \E raw \in NearZeroTimeStreams :
        \E r \in {DecodeTimeWithBuffer(raw)} : Read(raw, r, "readTime")

NextNearZero ==
    \/ DoReadNearZeroDate
    \/ DoReadNearZeroTime
    \/ DoReadNearZeroTimestamp

SpecNearZero == Init /\ [][NextNearZero]_vars

\* ------------------------------------------------------------------------
\* Readers that deliver a stream in pieces
\* ------------------------------------------------------------------------

\* The bytes with one mark put in before byte i + 1, for i from `from` to `to`.
WithMark(bytes, mark, from, to) ==
    { SubSeq(bytes, 1, i) \o <<mark>> \o SubSeq(bytes, i + 1, Len(bytes)) : i \in from..to }

\* The ways a reader delivers the bytes when every byte from position
\* `last` + 1 on arrives in a read that delivers at least one byte: all at
\* once, with one short read, or with one empty read.
InPieces(bytes, last) ==
    {bytes} \cup WithMark(bytes, ReadShort, 1, last) \cup WithMark(bytes, ReadNothing, 0, last)

\* The same, and the end of the stream reported with the last bytes.
WithLast(streams) == streams \cup { raw \o <<ReadLast>> : raw \in streams }

\* The year tail of a date is read by uleb128.DecodeWithByteBuffer, one byte
\* per read: the marks stay within the two bytes of the head.
ChunkedDateStreams ==
    UNION { InPieces(EncodeToBytes(NewDate(year, 8, 30)), 1) : year \in {2000, 2020, 0 - 2000} }

ChunkedTimeValues ==
    { NewTime(8, 41, 5, n, MakeZone(z)) :
        n \in {0, 43000000, 999999999},
        z \in { <<"utc">>, <<"local">>, <<"area", NameAsiaSingapore>>,
                <<"latlong", 5881, 1445>>, <<"offset", 60>> } }

ChunkedTimeStreams ==
    UNION { WithLast(InPieces(EncodeToBytes(v), EncodedSize(v) - 1)) : v \in ChunkedTimeValues }

\* A timestamp with a zone tail, which this package reads: the marks stay
\* within the head, the end of the stream falls in the zone tail.
ChunkedTimestampStreams ==
    UNION { WithLast(InPieces(EncodeToBytes(
                NewTimestamp(2020, 8, 30, 15, 33, 14, n, TZLocal)),
                baseByteCountsTimestamp[getSubsecondMagnitude(n)] - 1)) :
              n \in {0, 43000000} }

DoReadChunkedDate ==
    \E raw \in ChunkedDateStreams :
        \E r \in {DecodeDateWithBuffer(raw)} : Read(raw, r, "readDate")

DoReadChunkedTime ==
    \E raw \in ChunkedTimeStreams :
        \E r \in {DecodeTimeWithBuffer(raw)} : Read(raw, r, "readTime")

DoReadChunkedTimestamp ==
    \E raw \in ChunkedTimestampStreams :
        \E r \in {DecodeTimestampWithBuffer(raw)} : Read(raw, r, "readTimestamp")

NextChunked ==
    \/ DoReadChunkedDate
    \/ DoReadChunkedTime
    \/ DoReadChunkedTimestamp

SpecChunked == Init /\ [][NextChunked]_vars

\* ------------------------------------------------------------------------
\* Times of every sub-second precision
\* ------------------------------------------------------------------------

PowersOfTen == <<1, 10, 100, 1000, 10000, 100000, 1000000, 10000000, 100000000>>

\* Nanoseconds with 0 to 8 trailing zeros, and the largest of each magnitude.
NanosecondSweep ==
    {0, 999000000, 999999000, 999999999} \cup
    { d * PowersOfTen[e] : d \in {1, 7}, e \in 1..9 } \cup
    { d * PowersOfTen[e] : d \in {512, 999, 1023, 1024}, e \in 1..6 }

DoSweepNanosecond ==
    /\ pc = "idle"
    /\ \E n \in NanosecondSweep : Construct(NewTime(8, 41, 5, n, TZAtUTC))

NextSubsecond ==
    \/ DoSweepNanosecond
    \/ DoEncode
    \/ DoDecodeTime

SpecSubsecond == Init /\ [][NextSubsecond]_vars

\* ------------------------------------------------------------------------
\* Years over the whole 32-bit range
\* ------------------------------------------------------------------------

\* Years whose distance from 2000 is a power of two or one less, on either
\* side, up to the ends of the int32 range.
YearSweepWide ==
    {2000}
    \cup { 2000 + Pow2(k) : k \in 0..30 }
    \cup { 2000 + (Pow2(k) - 1) : k \in 1..30 }
    \cup { 2000 - Pow2(k) : k \in 0..30 }
    \cup { 2000 - (Pow2(k) - 1) : k \in 1..30 }
    \cup { (Pow2(30) - 1) + Pow2(30), 2000 - (Pow2(30) - 1) - Pow2(30) }
    \cup { 0 - 131072, 131071 }

\* One nanosecond value of each magnitude.
MagnitudeSweep == {0, 1000000, 1000, 1}

DoSweepYearDate ==
    /\ pc = "idle"
    /\ \E year \in YearSweepWide : Construct(NewDate(year, 1, 1))

DoSweepYearTimestamp ==
    /\ pc = "idle"
    /\ \E year \in YearSweepWide, n \in MagnitudeSweep :
          Construct(NewTimestamp(year, 1, 1, 0, 0, 0, n, TZAtUTC))

NextYear ==
    \/ DoSweepYearDate
    \/ DoSweepYearTimestamp
    \/ DoEncode

SpecYear == Init /\ [][NextYear]_vars

\* ------------------------------------------------------------------------
\* Zones named by area and location
\* ------------------------------------------------------------------------

\* Areas of the table, their letters, and areas that are not in it
\* ("Foo", "X", "Asi", "Locals").
TableAreas == { e[1] : e \in areaToShortAreaTable }

TableLetters == { e[1] : e \in shortAreaToAreaTable }

OtherAreas == { <<70, 111, 111>>, <<88>>, <<65, 115, 105>>, <<76, 111, 99, 97, 108, 115>> }

\* "", "A", "UTC", "GMT", "Tokyo", "A/B"
LocationSweep ==
    { <<>>, <<65>>, <<85, 84, 67>>, <<71, 77, 84>>, <<84, 111, 107, 121, 111>>, <<65, 47, 66>> }

AreaLocationSweep ==
    { area \o <<Slash>> \o location :
        area \in TableAreas \cup TableLetters \cup OtherAreas, location \in LocationSweep }

DoNewTimeAtAreaLocation ==
    /\ pc = "idle"
    /\ \E name \in AreaLocationSweep : Construct(NewTime(8, 41, 5, 0, TZAtAreaLocation(name)))

NextAreaLocation ==
    \/ DoNewTimeAtAreaLocation
    \/ DoEncode
    \/ DoDecodeTime

SpecAreaLocation == Init /\ [][NextAreaLocation]_vars

\* ------------------------------------------------------------------------
\* Constructor arguments beyond the width of the fields
\* ------------------------------------------------------------------------

\* Arguments in range, just out of range, and a multiple of 256 away from a
\* value in range.
WideMonths == {1, 12, 13, 0, 256, 257, 268, 0 - 255}
WideDays == {1, 31, 32, 257, 287}
WideHours == {0, 23, 24, 256, 279}
WideMinutes == {0, 59, 60, 256, 315}
WideSeconds == {0, 60, 61, 256, 316}

\* The same for the 16 bits of an offset, a latitude and a longitude.
WideOffsets == {1, 1439, 1440, 0 - 1439, 0 - 1440, 32768, 65535, 65536, 65537, 0 - 65536}
WideLatitudes == {0, 9000, 9001, 0 - 9001, 65536, 65636, 0 - 56536}
WideLongitudes == {0, 18000, 18001, 65536, 65636, 0 - 47536}

\* <<zone, the zone with the arguments as they were given>>
WideZones ==
    { <<TZWithMiutesOffsetFromUTC(m),
        [TimezoneUnset EXCEPT !.Type = TimezoneTypeUTCOffset, !.MinutesOffsetFromUTC = m]>> :
        m \in WideOffsets } \cup
    { <<TZAtLatLong(lat, long),
        [TimezoneUnset EXCEPT !.Type = TimezoneTypeLatitudeLongitude,
                              !.LatitudeHundredths = lat,
                              !.LongitudeHundredths = long]>> :
        lat \in WideLatitudes, long \in WideLongitudes }

\* A constructor returns `value` for the arguments held in `arguments`.
ConstructFrom(value, arguments) ==
    /\ pc = "idle"
    /\ time' = value
    /\ expected' = arguments
    /\ pc' = "built"
    /\ UNCHANGED <<size, buffer, reader, written, trail, result, consumed, encoding, before>>

DoNewDateWide ==
    \E month \in WideMonths, day \in WideDays :
        ConstructFrom(NewDate(2000, month, day),
                      [TimeUnset EXCEPT !.Type = TimeTypeDate, !.Year = 2000,
                                        !.Month = month, !.Day = day])

DoNewTimeWide ==
    \/ \E hour \in WideHours, minute \in WideMinutes, second \in WideSeconds :
          ConstructFrom(NewTime(hour, minute, second, 0, TZAtUTC),
                        [TimeUnset EXCEPT !.Type = TimeTypeTime, !.Hour = hour,
                                          !.Minute = minute, !.Second = second,
                                          !.Timezone = TZAtUTC])
    \/ \E zone \in WideZones :
          ConstructFrom(NewTime(8, 41, 5, 0, zone[1]),
                        [TimeUnset EXCEPT !.Type = TimeTypeTime, !.Hour = 8,
                                          !.Minute = 41, !.Second = 5,
                                          !.Timezone = zone[2]])

DoNewTimestampWide ==
    \E month \in WideMonths, hour \in WideHours, zone \in WideZones :
        ConstructFrom(NewTimestamp(2000, month, 1, hour, 0, 0, 0, zone[1]),
                      [TimeUnset EXCEPT !.Type = TimeTypeTimestamp, !.Year = 2000,
                                        !.Month = month, !.Day = 1, !.Hour = hour,
                                        !.Timezone = zone[2]])

NextWide ==
    \/ DoNewDateWide
    \/ DoNewTimeWide
    \/ DoNewTimestampWide
    \/ DoValidate

SpecWide == Init /\ [][NextWide]_vars

\* ------------------------------------------------------------------------
\* Properties
\* ------------------------------------------------------------------------

\* The n bits from bit `from` of a byte sequence read as one little-endian
\* number (bit 0 is the lowest bit of the first byte).
RECURSIVE WireField(_, _, _)
WireField(bytes, from, n) ==
    IF n = 0 THEN 0
    ELSE ((bytes[(from \div 8) + 1] \div Pow2(from % 8)) % 2)
            + 2 * WireField(bytes, from + 1, n - 1)

\* The zig-zag code of an integer: 0, -1, 1, -2, ... are 0, 1, 2, 3, ...
ZigzagOf(n) == IF n >= 0 THEN 2 * n ELSE (0 - 2 * n) - 1

\* The unsigned LEB128 bytes of a natural number.
RECURSIVE UlebOf(_)
UlebOf(n) == IF n < 128 THEN <<n>> ELSE <<128 + (n % 128)>> \o UlebOf(n \div 128)

\* The number of bytes from position i up to and including the first byte
\* whose top bit is clear.
RECURSIVE GroupLength(_, _)
GroupLength(bytes, i) ==
    IF i > Len(bytes) THEN 0
    ELSE IF bytes[i] < 128 THEN 1 ELSE 1 + GroupLength(bytes, i + 1)

Drop(bytes, n) == SubSeq(bytes, n + 1, Len(bytes))

\* The length the first byte of a zone tail announces.
ZoneTailLength(tail) ==
    IF tail[1] % 2 = 1 THEN 4
    ELSE IF tail[1] = 0 THEN 3
    ELSE 1 + (tail[1] \div 2)

\* Two's complement of n in w bits.
TwosComplement(n, w) == IF n < 0 THEN n + Pow2(w) ELSE n

\* A value with every field in range and one of the five zone variants.
ValidValue(v) == Validate(v) /\ v.Timezone.Type # TimezoneTypeUnset

ZeroInstances == {ZeroDate, ZeroTime, ZeroTimestamp}

\* The stream the last decoder call read from started with the encoding of
\* the value it was asked for.
Aligned ==
    /\ Len(before) >= Len(encoding)
    /\ SubSeq(before, 1, Len(encoding)) = encoding

\* The fields and the zone of the decoded value are those of the encoded one;
\* a UTC zone, however it was named, comes back as the UTC zone.
SameValue(decoded, v) ==
    /\ decoded.Type = v.Type
    /\ decoded.Year = v.Year /\ decoded.Month = v.Month /\ decoded.Day = v.Day
    /\ decoded.Hour = v.Hour /\ decoded.Minute = v.Minute /\ decoded.Second = v.Second
    /\ decoded.Nanosecond = v.Nanosecond
    /\ IF v.Timezone.Type = TimezoneTypeUTC
       THEN decoded.Timezone = timezoneUTC
       ELSE decoded.Timezone = v.Timezone

\* Head length of the value in `buffer`, read from its magnitude bits.
HeadLength ==
    LET m == WireField(buffer, 1, 2) IN
    IF time.Type = TimeTypeTimestamp THEN <<4, 5, 7, 8>>[m + 1] ELSE <<3, 4, 5, 7>>[m + 1]

\* The bytes of `buffer` behind the head and, in a timestamp, the year tail.
ZoneTail ==
    IF time.Type = TimeTypeTimestamp
    THEN Drop(buffer, HeadLength + GroupLength(buffer, HeadLength + 1))
    ELSE Drop(buffer, HeadLength)

\* "", Z, Zero, UTC, GMT, Etc/UTC, Etc/GMT, Zulu, Factory
UtcAliases ==
    { <<>>, <<90>>, <<90, 101, 114, 111>>, <<85, 84, 67>>, <<71, 77, 84>>,
      <<69, 116, 99, 47, 85, 84, 67>>, <<69, 116, 99, 47, 71, 77, 84>>,
      <<90, 117, 108, 117>>, <<70, 97, 99, 116, 111, 114, 121>> }

EncodedTimeOrTimestamp ==
    /\ pc = "encoded"
    /\ time.Type \in {TimeTypeTime, TimeTypeTimestamp}
    /\ ValidValue(time)

\* C1: decoding the encoding of a valid Date, Time or Timestamp, whatever its
\* zone variant, succeeds and returns a value of the same kind with the same
\* fields and the same zone, a UTC alias coming back as UTC.
C1_RoundTrip ==
    (pc = "decoded" /\ ValidValue(expected) /\ Aligned) =>
        /\ result.err = NoError
        /\ SameValue(result.time, expected)
        /\ IsEquivalentTo(result.time, expected)

C1_Witness ==
    /\ pc = "decoded"
    /\ ValidValue(expected)
    /\ Aligned
    /\ expected.Type = TimeTypeTimestamp
    /\ expected.Year < 0
    /\ expected.Timezone.Type = TimezoneTypeUTCOffset
    /\ result.time = expected

\* C2: for a valid value and for each of the three zero instances, the
\* number EncodedSize returns is the number of bytes the encoder writes, and
\* these are the bytes that reach the stream.
C2_SizeFidelity ==
    (pc \in {"encoded", "panic"} /\ (ValidValue(time) \/ time \in ZeroInstances)) =>
        /\ pc = "encoded"
        /\ size = Len(buffer)
        /\ SubSeq(reader, Len(reader) - trail - size + 1, Len(reader) - trail) = buffer

C2_Witness ==
    /\ pc = "encoded"
    /\ time = NewTimestamp(2020, 8, 30, 15, 33, 14, 19577323, TZAtAreaLocation(NameAsiaSingapore))
    /\ size = 21
    /\ Len(buffer) = 21

\* C3: a decoder reports as bytesDecoded the length of the encoding of the
\* value and takes exactly that many bytes from the reader, whatever bytes
\* follow, so that the next value of the stream starts where it stopped.
C3_SelfDelimiting ==
    (pc = "decoded" /\ ValidValue(expected) /\ Aligned) =>
        /\ result.bytesDecoded = Len(encoding)
        /\ consumed = Len(encoding)
        /\ reader = Drop(before, Len(encoding))

C3_Witness ==
    /\ pc = "decoded"
    /\ expected = NewTimestamp(1966, 12, 1, 5, 13, 5, 0, TZAtUTC)
    /\ result.time = expected
    /\ consumed = 5
    /\ Len(before) = 6
    /\ Len(reader) = 1

\* C4: a Timestamp is written as a head of 4, 5, 7 or 8 bytes for magnitude
\* 0, 1, 2 or 3, read as one little-endian number whose fields are, from
\* bit 0: the has-zone flag (1), the magnitude (2), the sub-second count
\* (10 x magnitude), second (6), minute (6), hour (5), day (5), month (4) and
\* the low 3, 1, 7 or 5 bits of the zig-zag of year - 2000 in the remaining
\* bits; the other bits of the zig-zag follow as an unsigned LEB128 number, and
\* a zone tail follows unless the zone is UTC.  2000-01-01T00:00:00.000000999
\* in UTC is 3e 1f 00 00 00 00 84 00 00.
C4_TimestampLayout ==
    (pc = "encoded" /\ time.Type = TimeTypeTimestamp /\ ValidValue(time)) =>
        LET m == WireField(buffer, 1, 2)
            headLen == <<4, 5, 7, 8>>[m + 1]
            lowBits == <<3, 1, 7, 5>>[m + 1]
            at == 3 + 10 * m
            zigzag == ZigzagOf(time.Year - 2000)
            yearTail == UlebOf(zigzag \div Pow2(lowBits))
        IN /\ Len(buffer) >= headLen + Len(yearTail)
           /\ WireField(buffer, 0, 1) = (IF time.Timezone.Type = TimezoneTypeUTC THEN 0 ELSE 1)
           /\ WireField(buffer, 3, 10 * m) * <<1, 1000000, 1000, 1>>[m + 1] = time.Nanosecond
           /\ WireField(buffer, at, 6) = time.Second
           /\ WireField(buffer, at + 6, 6) = time.Minute
           /\ WireField(buffer, at + 12, 5) = time.Hour
           /\ WireField(buffer, at + 17, 5) = time.Day
           /\ WireField(buffer, at + 22, 4) = time.Month
           /\ at + 26 + lowBits = 8 * headLen
           /\ WireField(buffer, at + 26, lowBits) = zigzag % Pow2(lowBits)
           /\ SubSeq(buffer, headLen + 1, headLen + Len(yearTail)) = yearTail
           /\ (Len(buffer) = headLen + Len(yearTail)) <=> (time.Timezone.Type = TimezoneTypeUTC)
           /\ time = NewTimestamp(2000, 1, 1, 0, 0, 0, 999, TZAtUTC)
                 => buffer = <<62, 31, 0, 0, 0, 0, 132, 0, 0>>

C4_Witness ==
    /\ pc = "encoded"
    /\ time = NewTimestamp(0 - 131072, 1, 1, 0, 0, 0, 1000000, TZWithMiutesOffsetFromUTC(1000))
    /\ WireField(buffer, 1, 2) = 1
    /\ Len(buffer) = 5 + 3 + 3

C6_DateLayout ==
    (pc = "encoded" /\ time.Type = TimeTypeDate /\ ValidValue(time)) =>
        LET zigzag == ZigzagOf(time.Year - 2000) IN
        /\ Len(buffer) >= 3
        /\ WireField(buffer, 0, 5) = time.Day
        /\ WireField(buffer, 5, 4) = time.Month
        /\ WireField(buffer, 9, 7) = zigzag % 128
        /\ Drop(buffer, 2) = UlebOf(zigzag \div 128)
        /\ time = NewDate(2000, 1, 1) => buffer = <<33, 0, 0>>
        /\ time = NewDate(0 - 2000, 12, 21) => buffer = <<149, 127, 62>>

C6_Witness ==
    /\ pc = "encoded"
    /\ time = NewDate(0 - 2000, 12, 21)
    /\ buffer = <<149, 127, 62>>

\* C7: in the encoding of a Time or a Timestamp, bit 0 of the first byte is
\* 0 and nothing follows the head and the year exactly when the zone is UTC,
\* under any of its names; otherwise it is 1 and exactly one zone tail
\* follows.
C7_HasZoneFlag ==
    EncodedTimeOrTimestamp =>
        /\ IF time.Timezone.Type = TimezoneTypeUTC
           THEN buffer[1] % 2 = 0 /\ ZoneTail = <<>>
           ELSE /\ buffer[1] % 2 = 1
                /\ ZoneTail # <<>>
                /\ Len(ZoneTail) = ZoneTailLength(ZoneTail)
        /\ \A name \in UtcAliases : TZAtAreaLocation(name).Type = TimezoneTypeUTC

C7_Witness ==
    /\ pc = "encoded"
    /\ time = NewTime(8, 41, 5, 0, TZAtAreaLocation(<<70, 97, 99, 116, 111, 114, 121>>))
    /\ time.Timezone.Type = TimezoneTypeUTC
    /\ buffer[1] % 2 = 0
    /\ Len(buffer) = 3

\* C8: the tail of an area/location zone and of the local zone is one byte
\* holding the length of the stored short name shifted left by one, so that
\* its bit 0 is 0, followed by that many bytes of the name, the length being
\* at most 127.  Asia/Singapore is 0x16 "S/Singapore"; the local zone is
\* 0x02 "L".
C8_AreaLocationTail ==
    (EncodedTimeOrTimestamp
        /\ time.Timezone.Type \in {TimezoneTypeAreaLocation, TimezoneTypeLocal}) =>
        LET name == time.Timezone.ShortAreaLocation IN
        /\ Len(name) <= 127
        /\ ZoneTail = <<2 * Len(name)>> \o name
        /\ ZoneTail[1] % 2 = 0
        /\ time.Timezone = TZAtAreaLocation(NameAsiaSingapore)
              => ZoneTail = <<22, 83, 47, 83, 105, 110, 103, 97, 112, 111, 114, 101>>
        /\ time.Timezone = TZLocal => ZoneTail = <<2, 76>>

C8_Witness ==
    /\ pc = "encoded"
    /\ time = NewTime(8, 41, 5, 0, TZAtAreaLocation(LongName(127)))
    /\ ValidValue(time)
    /\ buffer[4] = 254
    /\ Len(buffer) = 3 + 1 + 127

\* C9: the tail of a zone that is an offset of m minutes from UTC, for m
\* from -1439 to 1439 and not 0, is the three bytes 0x00, low byte, high
\* byte of m as a 16-bit two's complement number, and decodes to the offset
\* zone of the same m.
C9_UtcOffsetTail ==
    LET InRange(zone) ==
            /\ zone.Type = TimezoneTypeUTCOffset
            /\ zone.MinutesOffsetFromUTC >= 0 - 1439
            /\ zone.MinutesOffsetFromUTC <= 1439
            /\ zone.MinutesOffsetFromUTC # 0
    IN /\ (pc = "encoded" /\ time.Type = TimeTypeTime /\ InRange(time.Timezone)) =>
             LET word == TwosComplement(time.Timezone.MinutesOffsetFromUTC, 16)
             IN ZoneTail = <<0, word % 256, word \div 256>>
       /\ (pc = "decoded" /\ expected.Type = TimeTypeTime /\ InRange(expected.Timezone)) =>
             /\ result.err = NoError
             /\ result.time.Timezone = expected.Timezone
             /\ result.time.Timezone = TZWithMiutesOffsetFromUTC(expected.Timezone.MinutesOffsetFromUTC)
             /\ consumed = Len(encoding)

C9_Witness ==
    /\ pc = "decoded"
    /\ expected = NewTime(8, 41, 5, 0, TZWithMiutesOffsetFromUTC(0 - 1439))
    /\ Drop(encoding, 3) = <<0, 97, 250>>
    /\ result.time.Timezone.Type = TimezoneTypeUTCOffset
    /\ result.time.Timezone.MinutesOffsetFromUTC = 0 - 1439
    /\ reader # <<>>

\* C10: the tail of a latitude/longitude zone, for a latitude from -9000 to
\* 9000 and a longitude from -18000 to 18000 hundredths of a degree, is four
\* bytes, read as one little-endian number with bit 0 set, the latitude in
\* bits 1-15 and the longitude in bits 16-31, both in two's complement, and
\* decodes to the zone of the same latitude and longitude.
C10_LatLongTail ==
    LET InRange(zone) ==
            /\ zone.Type = TimezoneTypeLatitudeLongitude
            /\ zone.LatitudeHundredths >= 0 - 9000 /\ zone.LatitudeHundredths <= 9000
            /\ zone.LongitudeHundredths >= 0 - 18000 /\ zone.LongitudeHundredths <= 18000
    IN /\ (pc = "encoded" /\ time.Type = TimeTypeTime /\ InRange(time.Timezone)) =>
             /\ Len(ZoneTail) = 4
             /\ WireField(ZoneTail, 0, 1) = 1
             /\ WireField(ZoneTail, 1, 15) = TwosComplement(time.Timezone.LatitudeHundredths, 15)
             /\ WireField(ZoneTail, 16, 16) = TwosComplement(time.Timezone.LongitudeHundredths, 16)
       /\ (pc = "decoded" /\ expected.Type = TimeTypeTime /\ InRange(expected.Timezone)) =>
             /\ result.err = NoError
             /\ result.time.Timezone = expected.Timezone
             /\ result.time.Timezone.LatitudeHundredths = expected.Timezone.LatitudeHundredths
             /\ result.time.Timezone.LongitudeHundredths = expected.Timezone.LongitudeHundredths
             /\ consumed = Len(encoding)

C10_Witness ==
    /\ pc = "decoded"
    /\ expected = NewTime(8, 41, 5, 0, TZAtLatLong(0 - 9000, 0 - 18000))
    /\ result.time.Timezone.Type = TimezoneTypeLatitudeLongitude
    /\ result.time.Timezone.LatitudeHundredths = 0 - 9000
    /\ result.time.Timezone.LongitudeHundredths = 0 - 18000
    /\ reader # <<>>

\* The number of zero bytes a zero instance of each kind is written as.
ZeroLength(v) ==
    CASE v.Type = TimeTypeDate -> 3
      [] v.Type = TimeTypeTime -> 3
      [] v.Type = TimeTypeTimestamp -> 5

\* C11: ZeroDate(), ZeroTime() and ZeroTimestamp() are encoded as 3, 3 and 5
\* zero bytes, and the decoder of the same kind reads these bytes back as the
\* same zero instance, taking 3, 3 and 5 bytes and returning no error.
C11_ZeroRoundTrip ==
    /\ (pc = "encoded" /\ time \in ZeroInstances) =>
          /\ size = ZeroLength(time)
          /\ buffer = [i \in 1..ZeroLength(time) |-> 0]
    /\ (pc = "decoded" /\ expected \in ZeroInstances /\ Aligned) =>
          /\ encoding = [i \in 1..ZeroLength(expected) |-> 0]
          /\ result.err = NoError
          /\ result.time = expected
          /\ result.bytesDecoded = ZeroLength(expected)
          /\ consumed = ZeroLength(expected)

C11_Witness ==
    /\ pc = "decoded"
    /\ expected = ZeroTimestamp
    /\ Aligned
    /\ result.time = ZeroTimestamp
    /\ consumed = 5
    /\ reader # <<>>

\* The stream the last decoder call read from was a strict prefix of the
\* encoding of the value it was asked for.
Truncated ==
    /\ Len(before) < Len(encoding)
    /\ before = SubSeq(encoding, 1, Len(before))

\* C12: decoding a strict prefix of the encoding of a valid value, the empty
\* prefix included, with the decoder of the value's kind returns the
\* "incomplete" error.
C12_TruncatedIsIncomplete ==
    (pc = "decoded" /\ ValidValue(expected) /\ Truncated) =>
        result.err = ErrorIncomplete

\* The head length, the number of year bits in the head and the number of
\* bytes in the year tail of the bytes a date or timestamp decoder was handed.
RawHeadLength ==
    IF pc = "readDate" THEN 2 ELSE <<4, 5, 7, 8>>[WireField(before, 1, 2) + 1]

RawYearLowBits ==
    IF pc = "readDate" THEN 7 ELSE <<3, 1, 7, 5>>[WireField(before, 1, 2) + 1]

RawYearGroups == GroupLength(before, RawHeadLength + 1)

\* Bit k of the encoded year these bytes spell: the top bits of the head,
\* then seven bits of each byte of the tail.
EncodedYearBit(k) ==
    IF k < RawYearLowBits
    THEN WireField(before, 8 * RawHeadLength - RawYearLowBits + k, 1)
    ELSE LET g == (k - RawYearLowBits) \div 7 IN
         IF g < RawYearGroups
         THEN (before[RawHeadLength + 1 + g] \div Pow2((k - RawYearLowBits) % 7)) % 2
         ELSE 0

YearNeedsMoreThan32Bits ==
    \E k \in 32..(RawYearLowBits + 7 * RawYearGroups - 1) : EncodedYearBit(k) = 1

\* The encoded year without its lowest bit, from bit k on.
RECURSIVE EncodedYearHalf(_)
EncodedYearHalf(k) ==
    IF k > 31 THEN 0 ELSE EncodedYearBit(k) + 2 * EncodedYearHalf(k + 1)

\* The year an encoded year of at most 32 bits stands for.
WireYear ==
    IF EncodedYearBit(0) = 0
    THEN 2000 + EncodedYearHalf(1)
    ELSE 2000 - EncodedYearHalf(1) - 1

\* C13: DecodeDate and DecodeTimestamp return an error whenever the encoded
\* year spelled by the head's year bits and the LEB128 tail has a bit set
\* above bit 31, whatever the length of the tail; when they return no error
\* the year of the value is the one the bytes spell.
C13_YearOverflowRejected ==
    (pc \in {"readDate", "readTimestamp"}) =>
        /\ YearNeedsMoreThan32Bits => result.err # NoError
        /\ result.err = NoError => result.time.Year = WireYear

C13_Witness ==
    /\ pc = "readTimestamp"
    /\ YearNeedsMoreThan32Bits
    /\ RawYearGroups = 5
    /\ RawYearLowBits = 1
    /\ result.err = ErrYearTooBig

\* Of the bytes a time decoder was handed: the magnitude, the head length,
\* the bits above the hour field and the pattern expected there.
RawTimeMagnitude == WireField(before, 1, 2)

RawTimeHeadLength == <<3, 4, 5, 7>>[RawTimeMagnitude + 1]

RawReserved ==
    WireField(before, 20 + 10 * RawTimeMagnitude,
              8 * RawTimeHeadLength - 20 - 10 * RawTimeMagnitude)

RawPattern == <<15, 3, 0, 63>>[RawTimeMagnitude + 1]

\* The bytes behind the head.
RawTimeTail == Drop(before, RawTimeHeadLength)

\* The decoder returned the fields of the head, with the UTC zone when the
\* has-zone flag is clear and the zone of the tail when it is set.
DecodedNormally ==
    /\ result.err = NoError
    /\ result.time.Type = TimeTypeTime
    /\ result.time.Hour = WireField(before, 15 + 10 * RawTimeMagnitude, 5)
    /\ result.time.Minute = WireField(before, 9 + 10 * RawTimeMagnitude, 6)
    /\ result.time.Second = WireField(before, 3 + 10 * RawTimeMagnitude, 6)
    /\ result.time.Nanosecond =
          WireField(before, 3, 10 * RawTimeMagnitude)
            * <<1, 1000000, 1000, 1>>[RawTimeMagnitude + 1]
    /\ IF before[1] % 2 = 0
       THEN result.time.Timezone = timezoneUTC /\ consumed = RawTimeHeadLength
       ELSE result.time.Timezone = timezoneLocal /\ consumed = RawTimeHeadLength + 2

DecodedAsZeroTime ==
    /\ result.err = NoError
    /\ result.time = ZeroTime
    /\ consumed = RawTimeHeadLength

\* The reserved-bit check as stated for every magnitude: bits above the hour
\* field that are all zero give the zero time, bits equal to the pattern give
\* the fields of the head, anything else an error.
C14_ReservedBitsAsStated ==
    (pc = "readTime" /\ RawTimeTail \in {<<>>, RawTailLocal}) =>
        /\ RawReserved = 0 => DecodedAsZeroTime
        /\ RawReserved = RawPattern => DecodedNormally
        /\ (RawReserved # 0 /\ RawReserved # RawPattern) => result.err = ErrReservedBits

\* C14: DecodeTime compares the head bits above the hour field with the
\* pattern of the magnitude (0x0F, 0x03, 0x00, 0x3F): bits equal to the pattern
\* give the fields of the head, which at magnitude 2, where the head has no
\* such bits, is every head; bits that differ from the pattern and are all
\* zero give the zero time whatever the has-zone flag; any other bits give an
\* error.
C14_ReservedBits ==
    (pc = "readTime" /\ RawTimeTail \in {<<>>, RawTailLocal}) =>
        /\ (RawReserved = 0 /\ RawReserved # RawPattern) => DecodedAsZeroTime
        /\ RawReserved = RawPattern => DecodedNormally
        /\ (RawReserved # 0 /\ RawReserved # RawPattern) => result.err = ErrReservedBits

C14_Witness ==
    /\ pc = "readTime"
    /\ RawTimeMagnitude = 3
    /\ RawReserved = 0
    /\ before[1] % 2 = 1
    /\ result.time = ZeroTime
    /\ reader = RawTailLocal

\* C15: no public operation panics, whatever value object, destination buffer
\* or byte stream the caller hands it.
C15_NeverPanics == pc # "panic"

\* The documented ranges of the fields of a value.
DateFieldsInRange(v) ==
    /\ v.Month \in 1..12
    /\ v.Day \in 1..<<31, 29, 31, 30, 31, 30, 31, 31, 30, 31, 30, 31>>[v.Month]

ClockFieldsInRange(v) ==
    /\ v.Hour \in 0..23
    /\ v.Minute \in 0..59
    /\ v.Second \in 0..60
    /\ v.Nanosecond \in 0..999999999

ZoneFieldsInRange(z) ==
    /\ z.Type = TimezoneTypeLatitudeLongitude =>
          /\ z.LatitudeHundredths \in (0 - 9000)..9000
          /\ z.LongitudeHundredths \in (0 - 18000)..18000
    /\ z.Type = TimezoneTypeUTCOffset => z.MinutesOffsetFromUTC \in (0 - 1439)..1439

NameInRange(z) == z.Type = TimezoneTypeAreaLocation => Len(z.LongAreaLocation) \in 1..127

\* Every field relevant to the kind of v is in its range.
FieldsInRange(v) ==
    /\ v.Type \in {TimeTypeDate, TimeTypeTimestamp} => DateFieldsInRange(v)
    /\ v.Type \in {TimeTypeTime, TimeTypeTimestamp} =>
          ClockFieldsInRange(v) /\ ZoneFieldsInRange(v.Timezone)

\* C16: a value that NewDate, NewTime or NewTimestamp returned has every
\* field relevant to its kind in its documented range and an area/location
\* name of at most 127 bytes: construction with anything else fails.
C16_ConstructionValidates ==
    (pc = "built" /\ ~IsZeroValue(time)) =>
        FieldsInRange(time) /\ NameInRange(time.Timezone)

\* Validate as stated: for a year from -131072 to 131071 it returns no error
\* exactly when month, day, hour, minute, second, nanosecond, latitude,
\* longitude and offset, as far as the kind has them, are in range.
C17_ValidateAsStated ==
    (pc = "validated" /\ time.Year \in (0 - 131072)..131071) =>
        (result.err = NoError <=> FieldsInRange(time))

\* C17: for a year from -131072 to 131071, Validate returns no error exactly
\* when every field relevant to the kind is in range (month 1-12, day
\* 1-dayMax(month) with 29 for February, hour 0-23, minute 0-59, second 0-60,
\* nanosecond 0-999999999, latitude -9000..9000, longitude -18000..18000,
\* offset -1439..1439), the year of a Date or Timestamp is not 0, and the name
\* of an area/location zone of a Time or Timestamp has 1 to 127 bytes.
C17_ValidateRanges ==
    (pc = "validated" /\ time.Year \in (0 - 131072)..131071) =>
        (result.err = NoError <=>
            /\ FieldsInRange(time)
            /\ time.Type \in {TimeTypeDate, TimeTypeTimestamp} => time.Year # 0
            /\ time.Type \in {TimeTypeTime, TimeTypeTimestamp} => NameInRange(time.Timezone))

C17_Witness ==
    /\ pc = "validated"
    /\ time.Type = TimeTypeDate
    /\ time.Year = 1
    /\ time.Month = 2
    /\ time.Day = 29
    /\ result.err = NoError

\* C18: Validate returns an error for ZeroDate(), ZeroTime() and
\* ZeroTimestamp().
C18_ZeroInstancesFailValidate ==
    (pc = "validated" /\ time \in ZeroInstances) => result.err # NoError

\* A number of w bits read as a signed one.
Signed(n, w) == IF n >= Pow2(w - 1) THEN n - Pow2(w) ELSE n

\* The zone tail behind the head of a time spells a latitude, a longitude or
\* an offset outside its range.
WireZoneOutOfRange ==
    LET tail == RawTimeTail IN
    IF tail[1] % 2 = 1
    THEN \/ Signed(WireField(tail, 1, 15), 15) \notin (0 - 9000)..9000
         \/ Signed(WireField(tail, 16, 16), 16) \notin (0 - 18000)..18000
    ELSE IF tail[1] = 0
    THEN Signed(WireField(tail, 8, 12), 12) \notin (0 - 1439)..1439
    ELSE FALSE

\* C19: decoding a zone tail whose latitude, longitude or offset is outside
\* its range (-9000..9000, -18000..18000, -1439..1439) returns an error, and
\* no decoded value carries a zone outside these ranges.
C19_ZoneRangeOnDecode ==
    (/\ pc = "readTime"
     /\ RawReserved = RawPattern
     /\ before[1] % 2 = 1
     /\ Len(RawTimeTail) = ZoneTailLength(RawTimeTail)) =>
        /\ WireZoneOutOfRange => result.err # NoError
        /\ result.err = NoError => ZoneFieldsInRange(result.time.Timezone)

\* Two zones count as the same zone: both are UTC, under whatever name, or
\* they are the same variant with the same contents.
ZonesMatch(a, b) ==
    \/ a.Type = TimezoneTypeUTC /\ b.Type = TimezoneTypeUTC
    \/ a = b

FieldsMatch(a, b) ==
    /\ a.Year = b.Year /\ a.Month = b.Month /\ a.Day = b.Day
    /\ a.Hour = b.Hour /\ a.Minute = b.Minute /\ a.Second = b.Second
    /\ a.Nanosecond = b.Nanosecond
    /\ ZonesMatch(a.Timezone, b.Timezone)

\* C20: a.IsEquivalentTo(b) is true exactly when a and b are of the same
\* kind and their fields match, a UTC zone matching a zone built from any UTC
\* alias and a Local zone only a Local zone; values of different kinds are
\* never equivalent.
C20_Equivalence ==
    (pc \in {"equivalent", "different"}) =>
        (pc = "equivalent" <=> (time.Type = expected.Type /\ FieldsMatch(time, expected)))

\* C21: TZWithMiutesOffsetFromUTC(0) is the UTC zone, a time in it is not
\* equivalent to the same time at an offset of 1 minute and is written with
\* the has-zone flag clear and no tail; for every other m from -1439 to 1439
\* TZWithMiutesOffsetFromUTC(m) is an offset zone holding m.
C21_ZeroOffsetIsUtc ==
    /\ pc = "idle" =>
          \A m \in (0 - 1439)..1439 :
            \E zone \in {TZWithMiutesOffsetFromUTC(m)} :
              IF m = 0
              THEN zone = TZAtUTC
              ELSE /\ zone.Type = TimezoneTypeUTCOffset
                   /\ zone.MinutesOffsetFromUTC = m
    /\ (pc \in {"built", "encoded"} /\ time = NewTime(8, 41, 5, 0, TZWithMiutesOffsetFromUTC(0))) =>
          /\ time.Timezone.Type = TimezoneTypeUTC
          /\ ~IsEquivalentTo(time, NewTime(8, 41, 5, 0, TZWithMiutesOffsetFromUTC(1)))
          /\ ~IsEquivalentTo(NewTime(8, 41, 5, 0, TZWithMiutesOffsetFromUTC(1)), time)
    /\ (pc = "encoded" /\ time = NewTime(8, 41, 5, 0, TZWithMiutesOffsetFromUTC(0))) =>
          /\ buffer[1] % 2 = 0
          /\ Len(buffer) = 3
          /\ size = 3
    /\ (pc \in {"built", "encoded"} /\ time.Timezone.Type = TimezoneTypeUTCOffset) =>
          /\ time.Timezone.MinutesOffsetFromUTC # 0
          /\ time.Timezone = TZWithMiutesOffsetFromUTC(time.Timezone.MinutesOffsetFromUTC)

C21_Witness ==
    /\ pc = "encoded"
    /\ time = NewTime(8, 41, 5, 0, TZWithMiutesOffsetFromUTC(0))
    /\ time.Timezone = timezoneUTC
    /\ Len(buffer) = 3

\* A Date other than the zero Date that a constructor built or a decoder
\* returned, and the type of its zone.
DateZoneTypes ==
    (IF pc \in {"built", "encoded"} /\ time.Type = TimeTypeDate /\ time \notin ZeroInstances
     THEN {time.Timezone.Type} ELSE {})
    \cup
    (IF pc = "decoded" /\ result.err = NoError /\ result.time.Type = TimeTypeDate
           /\ result.time \notin ZeroInstances
     THEN {result.time.Timezone.Type} ELSE {})

\* The encoding of a Date is the two bytes of the head and the year tail:
\* no byte follows for a zone.
DateWithoutZoneTail ==
    (pc = "encoded" /\ time.Type = TimeTypeDate /\ time \notin ZeroInstances) =>
        /\ size = 2 + GroupLength(buffer, 3)
        /\ Len(buffer) = size
        /\ buffer[Len(buffer)] < 128

\* C22 as stated: every Date, built by NewDate or returned by DecodeDate, has
\* the UTC zone, and its encoding carries no zone.
C22_DateZoneAsStated ==
    /\ DateZoneTypes \subseteq {TimezoneTypeUTC}
    /\ DateWithoutZoneTail

\* C22: every Date other than the zero Date, built by NewDate or returned by
\* DecodeDate, has a zone of type Local, and the encoding of a Date is its
\* head and year tail with no zone tail behind them.
C22_DateZoneIsLocal ==
    /\ DateZoneTypes \subseteq {TimezoneTypeLocal}
    /\ DateWithoutZoneTail

C22_Witness ==
    /\ pc = "decoded"
    /\ result.err = NoError
    /\ result.time.Type = TimeTypeDate
    /\ result.time.Month = 12
    /\ result.time.Timezone.Type = TimezoneTypeLocal
    /\ result.bytesDecoded = 3

\* C23: for every valid value, EncodedSize and the number of bytes the
\* encoder writes are at most MaxEncodeLength.
C23_MaxEncodeLength ==
    (pc = "encoded" /\ ValidValue(time)) =>
        /\ size <= MaxEncodeLength
        /\ Len(buffer) <= MaxEncodeLength

\* The bytes the last decoder call took from the stream.
Taken == SubSeq(before, 1, consumed)

\* C24: a decoder returns a zero instance only when the bytes it took are the
\* all-zero pattern of its kind (3, 3 and 5 bytes): a head with any other bit
\* set, or a longer spelling of the same fields, does not come back as the
\* zero instance.
C24_ZeroOnlyFromZeroPattern ==
    (pc \in {"readDate", "readTime", "readTimestamp"} /\ result.err = NoError
        /\ result.time \in ZeroInstances) =>
        Taken = [i \in 1..ZeroLength(result.time) |-> 0]

\* The bytes of a stream, without the marks of how the reader delivers them.
BytesOf(raw) == SelectSeq(raw, LAMBDA b : b < 256)

\* What the decoder of the kind last called returns when a bytes.Buffer
\* delivers the same bytes.
FromBuffer ==
    CASE pc = "readDate" -> DecodeDateWithBuffer(BytesOf(before))
      [] pc = "readTime" -> DecodeTimeWithBuffer(BytesOf(before))
      [] pc = "readTimestamp" -> DecodeTimestampWithBuffer(BytesOf(before))

\* C25: a decoder returns the same value, bytesDecoded and error whether the
\* reader delivers the bytes all at once, with a short read, with a read of
\* no byte and no error, or with io.EOF next to the last bytes.
C25_ChunkingIndependent ==
    pc \in {"readDate", "readTime", "readTimestamp"} =>
        \E plain \in {FromBuffer} :
            /\ result.time = plain.time
            /\ result.bytesDecoded = plain.bytesDecoded
            /\ result.err = plain.err

\* The least magnitude whose unit (second, millisecond, microsecond,
\* nanosecond) divides n.
LeastMagnitude(n) ==
    CHOOSE m \in 0..3 :
        /\ n % <<1000000000, 1000000, 1000, 1>>[m + 1] = 0
        /\ \A k \in 0..(m - 1) : n % <<1000000000, 1000000, 1000, 1>>[k + 1] # 0

\* C26: for a nanosecond n from 0 to 999999999 the magnitude m that
\* getSubsecondMagnitude picks, and that the head carries, is the least one
\* whose unit divides n (0 only for n = 0); n / multiplier[m] * multiplier[m]
\* is n, the quotient is below 2^(10 x m), is what the head stores and
\* decodes back to n.
C26_SubsecondMagnitude ==
    /\ (pc = "encoded" /\ time.Type \in {TimeTypeTime, TimeTypeTimestamp}
            /\ ~IsZeroValue(time) /\ time.Nanosecond \in 0..999999999) =>
          LET n == time.Nanosecond
              m == getSubsecondMagnitude(n)
              multiplier == <<1, 1000000, 1000, 1>>[m + 1]
          IN /\ m = LeastMagnitude(n)
             /\ (m = 0) <=> (n = 0)
             /\ (n \div multiplier) * multiplier = n
             /\ n \div multiplier < Pow2(10 * m)
             /\ WireField(buffer, 1, 2) = m
             /\ WireField(buffer, 3, 10 * m) = n \div multiplier
    /\ (pc = "decoded" /\ expected.Type \in {TimeTypeTime, TimeTypeTimestamp}
            /\ ValidValue(expected) /\ Aligned) =>
          /\ result.err = NoError
          /\ result.time.Nanosecond = expected.Nanosecond

C26_Witness ==
    /\ pc = "decoded"
    /\ expected = NewTime(8, 41, 5, 999000, TZAtUTC)
    /\ WireField(encoding, 1, 2) = 2
    /\ WireField(encoding, 3, 20) = 999
    /\ result.time.Nanosecond = 999000

\* The number of bits of a natural number: 0 for 0.
RECURSIVE BitLength(_)
BitLength(n) == IF n = 0 THEN 0 ELSE 1 + BitLength(n \div 2)

\* The zig-zag code of n shifted right by b >= 1 bits.
ZigzagShifted(n, b) == (IF n >= 0 THEN n ELSE (0 - n) - 1) \div Pow2(b - 1)

\* The number of year bits the head of the value in `buffer` holds, and the
\* length of that head.
YearLowBits ==
    IF time.Type = TimeTypeDate THEN 7 ELSE <<3, 1, 7, 5>>[WireField(buffer, 1, 2) + 1]

YearHeadLength == IF time.Type = TimeTypeDate THEN 2 ELSE HeadLength

\* C27: for a year whose distance from 2000 fits 32 bits and the number b of
\* year bits in the head (7 in a Date; 3, 1, 7, 5 in a Timestamp of magnitude
\* 0 to 3), getYearGroupCount is the bit length of the encoded year shifted
\* right by b, divided by 7 and rounded up, and 1 when that is 0; it is the
\* number of LEB128 bytes written behind the head, and at most 5.  The year
\* 2000 is written as one tail byte 0.
C27_YearTailLength ==
    (pc = "encoded" /\ time.Type \in {TimeTypeDate, TimeTypeTimestamp} /\ ~IsZeroValue(time)) =>
        LET b == YearLowBits
            shifted == ZigzagShifted(time.Year - 2000, b)
            groups == IF shifted = 0 THEN 1 ELSE (BitLength(shifted) + 6) \div 7
            tail == Drop(buffer, YearHeadLength)
        IN /\ getYearGroupCount(encodeYear(time.Year), b) = groups
           /\ groups <= 5
           /\ tail = UlebOf(shifted)
           /\ Len(tail) = groups
           /\ size = YearHeadLength + groups
           /\ time.Year = 2000 => tail = <<0>>

C27_Witness ==
    /\ pc = "encoded"
    /\ time.Type = TimeTypeTimestamp
    /\ time.Year = 2000 - (Pow2(30) - 1) - Pow2(30)
    /\ time.Nanosecond = 1000000
    /\ Len(buffer) = 5 + 5

\* The letter of an area of the table.
LetterOf(area) == (CHOOSE e \in areaToShortAreaTable : e[1] = area)[2]

\* The zone built from Area/Location holds Letter/Location as its short and
\* Area/Location as its long name, and so does the zone built from
\* Letter/Location.
Folded(area, location) ==
    LET long == area \o <<Slash>> \o location
        short == LetterOf(area) \o <<Slash>> \o location
    IN /\ TZAtAreaLocation(long).ShortAreaLocation = short
       /\ TZAtAreaLocation(long).LongAreaLocation = long
       /\ TZAtAreaLocation(short).ShortAreaLocation = short
       /\ TZAtAreaLocation(short).LongAreaLocation = long

\* The zone built from a name whose area is not in the table holds the name
\* as its short and as its long name.
Verbatim(name) ==
    /\ TZAtAreaLocation(name).ShortAreaLocation = name
    /\ TZAtAreaLocation(name).LongAreaLocation = name

\* An area/location zone comes back from the decoder with the names it had.
AreaLocationKept ==
    (pc = "decoded" /\ expected.Timezone.Type = TimezoneTypeAreaLocation
        /\ ValidValue(expected) /\ Aligned) =>
        /\ result.err = NoError
        /\ result.time.Timezone.Type = TimezoneTypeAreaLocation
        /\ result.time.Timezone.LongAreaLocation = expected.Timezone.LongAreaLocation
        /\ result.time.Timezone.ShortAreaLocation = expected.Timezone.ShortAreaLocation

\* The names that stand for UTC or for the local zone.
ZoneAliases == { e[1] : e \in areaLocationToTimezoneTypeTable }

\* C28 as stated: every name Area/Location with an area of the table is
\* stored folded, however the location reads.
C28_FoldingAsStated ==
    /\ pc = "idle" =>
          /\ \A area \in TableAreas, location \in LocationSweep : Folded(area, location)
          /\ \A area \in OtherAreas, location \in LocationSweep :
                Verbatim(area \o <<Slash>> \o location)
    /\ AreaLocationKept

\* C28: a name Area/Location with an area of the table that is not an alias
\* of UTC (Etc/UTC, Etc/GMT, ...) is stored as Letter/Location and
\* Area/Location, and so is the name Letter/Location; a name whose area is
\* not in the table is stored as it is, twice.  An area/location zone comes
\* back from the decoder with the same long name.
C28_Folding ==
    /\ pc = "idle" =>
          /\ \A area \in TableAreas, location \in LocationSweep :
                (area \o <<Slash>> \o location) \notin ZoneAliases => Folded(area, location)
          /\ \A area \in OtherAreas, location \in LocationSweep :
                Verbatim(area \o <<Slash>> \o location)
    /\ AreaLocationKept

C28_Witness ==
    /\ pc = "decoded"
    /\ expected.Timezone.LongAreaLocation = <<65, 115, 105, 97, 47, 84, 111, 107, 121, 111>>
    /\ encoding = <<41, 82, 244, 14, 83, 47, 84, 111, 107, 121, 111>>
    /\ result.time.Timezone.LongAreaLocation = expected.Timezone.LongAreaLocation

\* C29: when an argument of NewDate, NewTime, NewTimestamp, TZAtLatLong or
\* TZWithMiutesOffsetFromUTC is outside its range, Validate returns an error
\* for the value that was built: no such argument is stored as a field that
\* is in range, and no such offset as the UTC zone.
C29_OutOfRangeStaysInvalid ==
    (pc = "validated" /\ ~FieldsInRange(expected)) =>
        /\ result.err # NoError
        /\ time.Timezone.Type = expected.Timezone.Type

\* int32 words: the least, the greatest, those next to them and around 0.
Int32Ends ==
    { [i \in WordBits |-> IF i = 31 THEN 1 ELSE 0],
      [i \in WordBits |-> IF i < 31 THEN 1 ELSE 0],
      [i \in WordBits |-> IF i = 31 \/ i = 0 THEN 1 ELSE 0],
      [i \in WordBits |-> IF i < 31 /\ i # 0 THEN 1 ELSE 0],
      Int32Word(0), Int32Word(1), Int32Word(0 - 1), Int32Word(0 - 2) }

\* C30: decodeZigzag32(encodeZigzag32(x)) is x for an int32 x, the ends of
\* the range included, and decodeYear(encodeYear(y)) is y for a year y whose
\* distance from 2000 is an int32, -131072 and 131071 among them.
C30_ZigzagInverse ==
    /\ pc = "idle" => \A x \in Int32Ends : decodeZigzag32(encodeZigzag32(x)) = x
    /\ (pc \in {"built", "encoded"} /\ time.Type \in {TimeTypeDate, TimeTypeTimestamp}) =>
          /\ decodeZigzag32(encodeZigzag32(Int32Word(time.Year - 2000)))
                = Int32Word(time.Year - 2000)
          /\ decodeYear(encodeYear(time.Year)) = time.Year

C30_Witness ==
    /\ pc = "encoded"
    /\ time.Type = TimeTypeDate
    /\ time.Year = 2000 - (Pow2(30) - 1) - Pow2(30)
    /\ encodeYear(time.Year) = [i \in WordBits |-> IF i < 32 /\ i # 1 THEN 1 ELSE 0]
    /\ decodeYear(encodeYear(time.Year)) = time.Year

====
